---- MODULE Spec2Model ----
(***************************************************************************)
(* Model of the Brownsville project's dataset client (data_api.Client):    *)
(* the per-dataset metadata, the cache files, the metadata snapshot, the   *)
(* fetch reconciliation of Client.__get_results, the join of               *)
(* Client.load_brownsville and the construction of the Brownsville object  *)
(* (BrownsvilleAPI.Brownsville.__init__).                                  *)
(***************************************************************************)
EXTENDS Integers, Sequences, FiniteSets, TLC

(***************************************************************************)
(* Bounds of the model.                                                    *)
(***************************************************************************)
\* the local wall clock runs from 1 to MaxTime
MaxTime == 2
\* number of load_* calls explored in one behaviour
MaxCalls == 2
\* number of Brownsville constructions explored in one behaviour
MaxRuns == 3
\* number of rows of the tables the join is applied to on its own
MaxRows == 2

(***************************************************************************)
(* Program constants.                                                      *)
(***************************************************************************)
\* kwargs.get("limit", 1000)
DefaultLimit == 1000
\* pandas' missing value (NaN / <NA>)
NULL == 0 - 1
\* datetime(1970, 12, 17), the cache_date of a metadata that never synced;
\* every timestamp of the model is later
NeverSynced == 1 - 1

(***************************************************************************)
(* The six datasets of Client.__load_metadata, by attribute name           *)
(* (metadata_311, metadata_complaint_problems, ...).                       *)
(***************************************************************************)
Datasets ==
    {"311", "complaint_problems", "housing_maintenance", "dob_complaints",
     "brownsville", "pluto"}

\* the datasets a load_* wrapper passes to __get_results
Loadable == Datasets \ {"brownsville"}

\* endpoint ids passed to DatasetMetaInformation
EndpointOf(d) ==
    CASE d = "311" -> "erm2-nwe9"
      [] d = "complaint_problems" -> "a2nx-4u46"
      [] d = "housing_maintenance" -> "uwyv-629c"
      [] d = "dob_complaints" -> "eabe-havv"
      [] d = "pluto" -> "64uk-42ks"
      [] d = "brownsville" -> ""

\* results["name"] of the remote metadata call (the brownsville name is
\* given by the client itself)
NameOf(d) ==
    CASE d = "311" -> "311 Service Requests"
      [] d = "complaint_problems" -> "Complaint Problems"
      [] d = "housing_maintenance" -> "Housing Maintenance Code Complaints"
      [] d = "dob_complaints" -> "DOB Complaints Received"
      [] d = "pluto" -> "Primary Land Use Tax Lot Output"
      [] d = "brownsville" -> "Brownsville complaints"

\* self.name.lower().replace(" ", "-") + "-raw.csv"
FilenameOf(name) ==
    CASE name = "311 Service Requests" -> "311-service-requests-raw.csv"
      [] name = "Complaint Problems" -> "complaint-problems-raw.csv"
      [] name = "Housing Maintenance Code Complaints"
            -> "housing-maintenance-code-complaints-raw.csv"
      [] name = "DOB Complaints Received" -> "dob-complaints-received-raw.csv"
      [] name = "Primary Land Use Tax Lot Output"
            -> "primary-land-use-tax-lot-output-raw.csv"
      [] name = "Brownsville complaints" -> "brownsville-complaints-raw.csv"

Filenames == {FilenameOf(NameOf(d)) : d \in Datasets}

(***************************************************************************)
(* Query parameters (the kwargs of a call) are dictionaries: functions     *)
(* from parameter names to values.  A where clause is a conjunction of     *)
(* range conditions.                                                       *)
(***************************************************************************)
EmptyKw == [k \in {} |-> 0]

Cond(col, lo, hi) == [col |-> col, lo |-> lo, hi |-> hi]

\* where="communityboard=16"
WhereBoard16 == <<Cond("communityboard", 16, 16)>>
\* where="cd=316"
WhereCd316 == <<Cond("cd", 316, 316)>>

\* last_query: dict = None
NoneQuery == [isNone |-> TRUE, kw |-> EmptyKw]
SomeQuery(kw) == [isNone |-> FALSE, kw |-> kw]

\* kwargs["offset"] = metadata.offset
WithOffset(kw, off) ==
    [k \in DOMAIN kw \cup {"offset"} |-> IF k = "offset" THEN off ELSE kw[k]]

(***************************************************************************)
(* Tables are sequences of rows; a row is a record of its columns plus     *)
(* parsed: FALSE for a record as the remote service returns it (every      *)
(* value a JSON string), TRUE once read back from a csv file or converted  *)
(* by astype.                                                              *)
(***************************************************************************)
HMRow(cid, sdate, bid, board, block, lot) ==
    [complaintid |-> cid, statusdate |-> sdate, buildingid |-> bid,
     communityboard |-> board, boroughid |-> 3, borough |-> "BROOKLYN",
     housenumber |-> bid, streetname |-> "SUTTER AVENUE", zip |-> 11212,
     block |-> block, lot |-> lot, parsed |-> FALSE]

CPRow(cid, sdate, major, minor) ==
    [complaintid |-> cid, statusdate |-> sdate, majorcategoryid |-> major,
     minorcategoryid |-> minor, parsed |-> FALSE]

\* the decimal digits of a natural number, as str() writes them
RECURSIVE Digits(_)
Digits(n) == IF n < 10 THEN <<n>> ELSE Append(Digits(n \div 10), n % 10)

\* str.zfill(width) of a string of digits
RECURSIVE ZFill(_, _)
ZFill(s, width) == IF Len(s) >= width THEN s ELSE ZFill(<<0>> \o s, width)

\* astype('int64') of a string of digits: the number, written here by its
\* digits without leading zeros (a bbl does not fit 32-bit integers)
RECURSIVE IntOfDigits(_)
IntOfDigits(s) ==
    IF Len(s) > 1 /\ Head(s) = 0 THEN IntOfDigits(Tail(s)) ELSE s

\* a faulty variant of BBLOf: block and lot are not padded
BBLOfUnpadded(boroughid, block, lot) ==
    IntOfDigits(Digits(boroughid) \o Digits(block) \o Digits(lot))

\* the bbl of a borough id, a block and a lot
BBLOf(boroughid, block, lot) ==
    IntOfDigits(Digits(boroughid) \o ZFill(Digits(block), 5)
                  \o ZFill(Digits(lot), 4))

PlutoRow(block, lot, owner) ==
    [cd |-> 316, bbl |-> BBLOf(3, block, lot), ownertype |-> owner,
     parsed |-> FALSE]

PlainRow(key) == [unique_key |-> key, parsed |-> FALSE]

\* The rows the remote service holds for an endpoint once it has grown; the
\* last row of each is the one the first growth adds.  The complaint the
\* growth adds has an id with fewer digits than the others.
RemoteRows(endpoint) ==
    CASE endpoint = "uwyv-629c" ->
           << HMRow(101, 2, 7, 16, 7, 42), HMRow(100, 1, 5, 16, 8, 1),
              HMRow(102, 3, 7, 3, 7, 42), HMRow(104, 2, 6, 16, 9, 3),
              HMRow(99, 2, 6, 16, 9, 3) >>
      [] endpoint = "a2nx-4u46" ->
           << CPRow(101, 2, 9, 349), CPRow(101, 2, 8, NULL),
              CPRow(100, 1, NULL, NULL), CPRow(55, 1, 9, 349),
              CPRow(99, 2, NULL, 5) >>
      [] endpoint = "64uk-42ks" ->
           << PlutoRow(7, 42, "P"), PlutoRow(9, 3, "C") >>
      [] OTHER -> << PlainRow(1), PlainRow(2) >>

(***************************************************************************)
(* The remote service (sodapy.Socrata), an external collaborator: what     *)
(* get_metadata, get_all and get answer.                                   *)
(***************************************************************************)
\* the rows of an endpoint at a version of the remote data; before
\* version 0 the dataset holds no row yet
RemoteTable(endpoint, ver) ==
    LET all == RemoteRows(endpoint)
    IN  IF ver < 0 THEN << >>
        ELSE IF ver = 0 THEN SubSeq(all, 1, Len(all) - 1) ELSE all

\* whether a row satisfies the where clause of the parameters
RowMatches(params, row) ==
    IF "where" \in DOMAIN params
    THEN \A i \in 1..Len(params.where) :
            LET c == params.where[i]
            IN  c.col \in DOMAIN row /\ c.lo <= row[c.col] /\ row[c.col] <= c.hi
    ELSE TRUE

\* the rows matching the parameters, from the offset on
RemoteSelect(endpoint, params, ver) ==
    LET matched == SelectSeq(RemoteTable(endpoint, ver),
                             LAMBDA r : RowMatches(params, r))
        off == IF "offset" \in DOMAIN params THEN params.offset ELSE 0
    IN  SubSeq(matched, off + 1, Len(matched))

\* self._client.get_all(endpoint, **kwargs): every matching row
RemoteGetAll(endpoint, params, ver) == RemoteSelect(endpoint, params, ver)

\* self._client.get(endpoint, **kwargs): one page of matching rows
RemoteGet(endpoint, params, ver) ==
    LET rows == RemoteSelect(endpoint, params, ver)
        limit == IF "limit" \in DOMAIN params THEN params.limit ELSE DefaultLimit
    IN  SubSeq(rows, 1, IF limit < Len(rows) THEN limit ELSE Len(rows))

\* a remote call as the collaborator sees it
RemoteCall(fn, endpoint, params) ==
    [fn |-> fn, endpoint |-> endpoint, params |-> params]

(***************************************************************************)
(* Cache files.                                                            *)
(***************************************************************************)
\* a file of the data directory: absent, or present with the rows read_csv
\* gets from it, or present and not parseable (ok = FALSE)
NoFile == [exists |-> FALSE, ok |-> TRUE, rows |-> << >>]

\* df.to_csv(path) followed by pd.read_csv(path, index_col=0): the same rows
\* in the same order, every value parsed from its text
CsvRows(df) == [i \in 1..Len(df) |-> [df[i] EXCEPT !.parsed = TRUE]]

\* df.to_csv(self._DATA_PATH + metadata.filename)
ToCsv(df) == [exists |-> TRUE, ok |-> TRUE, rows |-> CsvRows(df)]

\* os.path.exists(self._DATA_PATH + metadata.filename)
PathExists(file) == file.exists

\* pd.read_csv(..., nrows=limit)
ReadCsvHead(file, limit) ==
    SubSeq(file.rows, 1, IF limit < Len(file.rows) THEN limit ELSE Len(file.rows))

(***************************************************************************)
(* DatasetMetaInformation.                                                 *)
(***************************************************************************)
\* DatasetMetaInformation.__init__ with the class defaults of offset,
\* loaded and last_query
NewMetadata(d, rowsUpdatedAt) ==
    [endpoint |-> EndpointOf(d), name |-> NameOf(d),
     filename |-> FilenameOf(NameOf(d)), updated_on |-> rowsUpdatedAt,
     cache_date |-> NeverSynced, offset |-> 0, loaded |-> FALSE,
     last_query |-> NoneQuery]

(***************************************************************************)
(* Client.__get_results.                                                   *)
(***************************************************************************)
\* a faulty variant of QueryUnchanged: any earlier query counts as the same
QueryUnchangedAnyPrevious(metadata, kwargs) == ~metadata.last_query.isNone

\* metadata.last_query == kwargs
QueryUnchanged(metadata, kwargs) ==
    ~metadata.last_query.isNone /\ metadata.last_query.kw = kwargs

\* load_local and os.path.exists(self._DATA_PATH + metadata.filename)
CacheUsable(load_local, file) == load_local /\ PathExists(file)

\* a faulty variant of UpdateDue: a cache as old as the remote data is due
UpdateDueInclusive(metadata) == metadata.cache_date <= metadata.updated_on

\* metadata.cache_date < metadata.updated_on
UpdateDue(metadata) == metadata.cache_date < metadata.updated_on

\* if not metadata.loaded: metadata.loaded = True
MarkLoaded(metadata) == [metadata EXCEPT !.loaded = TRUE]

\* a faulty variant of SyncCache: the offset is not set
SyncCacheKeepingOffset(metadata, file, df, t, fault) ==
    [meta |-> [metadata EXCEPT !.cache_date = t],
     file |-> CASE fault = "write_kept" -> file
                [] fault = "write_torn" ->
                     [exists |-> TRUE, ok |-> FALSE, rows |-> << >>]
                [] OTHER -> ToCsv(df),
     df |-> IF fault \in {"write_kept", "write_torn"} THEN << >> ELSE df,
     outcome |-> IF fault \in {"write_kept", "write_torn"}
                 THEN "write_error" ELSE "ok"]

\* the three assignments that end the fetch_all branch, the write of the
\* cache file included; fault "write_kept" / "write_torn" is a to_csv that
\* raises and leaves the old file / an unparseable file
SyncCache(metadata, file, df, t, fault) ==
    [meta |-> [metadata EXCEPT !.offset = Len(df), !.cache_date = t],
     file |-> CASE fault = "write_kept" -> file
                [] fault = "write_torn" ->
                     [exists |-> TRUE, ok |-> FALSE, rows |-> << >>]
                [] OTHER -> ToCsv(df),
     df |-> IF fault \in {"write_kept", "write_torn"} THEN << >> ELSE df,
     outcome |-> IF fault \in {"write_kept", "write_torn"}
                 THEN "write_error" ELSE "ok"]

\* a faulty variant of Raised: the offset is reset before the error
\* leaves the call
RaisedAfterReset(metadata, file, outcome, calls) ==
    [meta |-> [metadata EXCEPT !.offset = 0], file |-> file, df |-> << >>,
     outcome |-> outcome, calls |-> calls]

\* the result of a call that raises: nothing but loaded has changed
Raised(metadata, file, outcome, calls) ==
    [meta |-> metadata, file |-> file, df |-> << >>, outcome |-> outcome,
     calls |-> calls]

\* a faulty variant of FetchDelta: the new rows replace the cached rows
FetchDeltaAlone(metadata, file, kwargs, t, fault, ver) ==
    LET params == WithOffset(kwargs, metadata.offset)
        call == RemoteCall("get_all", metadata.endpoint, params)
        df == RemoteGetAll(metadata.endpoint, params, ver)
    IN  IF fault = "remote"
        THEN Raised(metadata, file, "remote_error", <<call>>)
        ELSE SyncCache(metadata, file, df, t, fault) @@ [calls |-> <<call>>]

\* a faulty variant of FetchDelta: the parameters with the offset become
\* the last_query
FetchDeltaRemembering(metadata, file, kwargs, t, fault, ver) ==
    LET params == WithOffset(kwargs, metadata.offset)
        call == RemoteCall("get_all", metadata.endpoint, params)
        df == file.rows \o RemoteGetAll(metadata.endpoint, params, ver)
    IN  IF fault = "remote"
        THEN Raised(metadata, file, "remote_error", <<call>>)
        ELSE SyncCache([metadata EXCEPT !.last_query = SomeQuery(params)],
                       file, df, t, fault) @@ [calls |-> <<call>>]

\* the delta fetch of a cached dataset whose cache is older than the
\* remote data
FetchDelta(metadata, file, kwargs, t, fault, ver) ==
    LET params == WithOffset(kwargs, metadata.offset)
        call == RemoteCall("get_all", metadata.endpoint, params)
        df == file.rows \o RemoteGetAll(metadata.endpoint, params, ver)
    IN  IF fault = "remote"
        THEN Raised(metadata, file, "remote_error", <<call>>)
        ELSE SyncCache(metadata, file, df, t, fault) @@ [calls |-> <<call>>]

\* a faulty variant of FetchWhole: a failed fetch falls back to the cache
FetchWholeFallingBack(metadata, file, kwargs, t, fault, ver) ==
    LET call == RemoteCall("get_all", metadata.endpoint, kwargs)
        df == RemoteGetAll(metadata.endpoint, kwargs, ver)
    IN  IF fault = "remote"
        THEN [meta |-> metadata, file |-> file, df |-> file.rows,
              outcome |-> "ok", calls |-> <<call>>]
        ELSE SyncCache([metadata EXCEPT !.last_query = SomeQuery(kwargs)],
                       file, df, t, fault) @@ [calls |-> <<call>>]

\* a faulty variant of FetchWhole: the query is not remembered
FetchWholeForgetting(metadata, file, kwargs, t, fault, ver) ==
    LET call == RemoteCall("get_all", metadata.endpoint, kwargs)
        df == RemoteGetAll(metadata.endpoint, kwargs, ver)
    IN  IF fault = "remote"
        THEN Raised(metadata, file, "remote_error", <<call>>)
        ELSE SyncCache(metadata, file, df, t, fault) @@ [calls |-> <<call>>]

\* the fetch of the whole dataset
FetchWhole(metadata, file, kwargs, t, fault, ver) ==
    LET call == RemoteCall("get_all", metadata.endpoint, kwargs)
        df == RemoteGetAll(metadata.endpoint, kwargs, ver)
    IN  IF fault = "remote"
        THEN Raised(metadata, file, "remote_error", <<call>>)
        ELSE SyncCache([metadata EXCEPT !.last_query = SomeQuery(kwargs)],
                       file, df, t, fault) @@ [calls |-> <<call>>]

\* the fetch_all branch
FetchAll(metadata, file, load_local, kwargs, t, fault, ver) ==
    IF QueryUnchanged(metadata, kwargs) /\ CacheUsable(load_local, file)
    THEN IF ~file.ok
         THEN Raised(metadata, file, "read_error", << >>)
         ELSE IF UpdateDue(metadata)
              THEN FetchDelta(metadata, file, kwargs, t, fault, ver)
              ELSE SyncCache(metadata, file, file.rows, t, fault)
                     @@ [calls |-> << >>]
    ELSE FetchWhole(metadata, file, kwargs, t, fault, ver)

\* a faulty variant of Peek: the query of a bounded read is remembered
PeekRemembering(metadata, file, load_local, kwargs, fault, ver) ==
    IF CacheUsable(load_local, file)
    THEN IF ~file.ok
         THEN Raised(metadata, file, "read_error", << >>)
         ELSE [meta |-> [metadata EXCEPT !.last_query = SomeQuery(kwargs)],
               file |-> file,
               df |-> ReadCsvHead(file, IF "limit" \in DOMAIN kwargs
                                        THEN kwargs.limit ELSE DefaultLimit),
               outcome |-> "ok", calls |-> << >>]
    ELSE LET call == RemoteCall("get", metadata.endpoint, kwargs)
         IN  IF fault = "remote"
             THEN Raised(metadata, file, "remote_error", <<call>>)
             ELSE [meta |-> [metadata EXCEPT !.last_query = SomeQuery(kwargs)],
                   file |-> file,
                   df |-> RemoteGet(metadata.endpoint, kwargs, ver),
                   outcome |-> "ok", calls |-> <<call>>]

\* a faulty variant of Peek: the cache file is read whatever load_local
PeekIgnoringLoadLocal(metadata, file, load_local, kwargs, fault, ver) ==
    IF PathExists(file)
    THEN IF ~file.ok
         THEN Raised(metadata, file, "read_error", << >>)
         ELSE [meta |-> metadata, file |-> file,
               df |-> ReadCsvHead(file, IF "limit" \in DOMAIN kwargs
                                        THEN kwargs.limit ELSE DefaultLimit),
               outcome |-> "ok", calls |-> << >>]
    ELSE LET call == RemoteCall("get", metadata.endpoint, kwargs)
         IN  IF fault = "remote"
             THEN Raised(metadata, file, "remote_error", <<call>>)
             ELSE [meta |-> metadata, file |-> file,
                   df |-> RemoteGet(metadata.endpoint, kwargs, ver),
                   outcome |-> "ok", calls |-> <<call>>]

\* the branch of a call without fetch_all: a bounded read
Peek(metadata, file, load_local, kwargs, fault, ver) ==
    IF CacheUsable(load_local, file)
    THEN IF ~file.ok
         THEN Raised(metadata, file, "read_error", << >>)
         ELSE [meta |-> metadata, file |-> file,
               df |-> ReadCsvHead(file, IF "limit" \in DOMAIN kwargs
                                        THEN kwargs.limit ELSE DefaultLimit),
               outcome |-> "ok", calls |-> << >>]
    ELSE LET call == RemoteCall("get", metadata.endpoint, kwargs)
         IN  IF fault = "remote"
             THEN Raised(metadata, file, "remote_error", <<call>>)
             ELSE [meta |-> metadata, file |-> file,
                   df |-> RemoteGet(metadata.endpoint, kwargs, ver),
                   outcome |-> "ok", calls |-> <<call>>]

\* Client.__get_results(metadata, fetch_all, load_local, **kwargs) at local
\* time t, against the remote data of version ver: the metadata and the
\* cache file it leaves, the table it returns (df), the remote calls it
\* issued and how it ended
GetResults(metadata, file, fetch_all, load_local, kwargs, t, fault, ver) ==
    IF fetch_all
    THEN FetchAll(MarkLoaded(metadata), file, load_local, kwargs, t, fault, ver)
    ELSE Peek(MarkLoaded(metadata), file, load_local, kwargs, fault, ver)

(***************************************************************************)
(* Client.load_brownsville: the bounds of the complaint-problems query     *)
(* and the join.                                                           *)
(***************************************************************************)
\* s < t for two strings of digits (Python's str comparison)
RECURSIVE StrLess(_, _)
StrLess(s, t) ==
    IF s = << >> THEN t # << >>
    ELSE IF t = << >> THEN FALSE
    ELSE IF Head(s) # Head(t) THEN Head(s) < Head(t)
    ELSE StrLess(Tail(s), Tail(t))

\* a < b for two values of a column: numbers when read from a csv file,
\* strings when they come from the remote service
ValueLess(a, b, parsed) ==
    IF parsed THEN a < b ELSE StrLess(Digits(a), Digits(b))

\* whether the rows of a table all have the same representation (min and
\* max raise a TypeError on a column that mixes numbers and strings)
Comparable(df) == \A i, j \in 1..Len(df) : df[i].parsed = df[j].parsed

\* min(df[col]) and max(df[col]) of a non-empty comparable table
ColumnMin(df, col) ==
    LET i == CHOOSE i \in 1..Len(df) : \A j \in 1..Len(df) :
                 ~ValueLess(df[j][col], df[i][col], df[1].parsed)
    IN  df[i][col]

ColumnMax(df, col) ==
    LET i == CHOOSE i \in 1..Len(df) : \A j \in 1..Len(df) :
                 ~ValueLess(df[i][col], df[j][col], df[1].parsed)
    IN  df[i][col]

\* a status date later than every date of the model: the where clause of
\* the complaint-problems query has no upper bound on statusdate
NoUpperBound == 10 * 10 * 10

\* the select of the complaint-problems query
SelectProblems ==
    "distinct complaintid, unittypeid, spacetypeid, typeid, majorcategoryid, minorcategoryid, codeid, statusid, statusdate, statusdescription"

\* the kwargs of the complaint-problems query of load_brownsville
ProblemsQuery(df_housing_maintenance) ==
    [select |-> SelectProblems,
     where |-> << Cond("statusdate",
                       ColumnMin(df_housing_maintenance, "statusdate"),
                       NoUpperBound),
                  Cond("complaintid",
                       ColumnMin(df_housing_maintenance, "complaintid"),
                       ColumnMax(df_housing_maintenance, "complaintid")) >>]

\* df.astype(convert_dict): every value converted to its type
AsType(df) == [i \in 1..Len(df) |-> [df[i] EXCEPT !.parsed = TRUE]]

\* a faulty variant of MergeRow: a left row without a match is dropped
MergeRowInner(l, right, on, cols) ==
    LET ms == SelectSeq(right, LAMBDA r : \A k \in on : r[k] = l[k])
    IN  [i \in 1..Len(ms) |-> l @@ [c \in cols |-> ms[i][c]]]

\* the rows a left row gives in a left merge: one per matching right row,
\* in the order of the right table, or one with nulls when none matches
MergeRow(l, right, on, cols) ==
    LET ms == SelectSeq(right, LAMBDA r : \A k \in on : r[k] = l[k])
    IN  IF ms = << >>
        THEN << l @@ [c \in cols |-> NULL] >>
        ELSE [i \in 1..Len(ms) |-> l @@ [c \in cols |-> ms[i][c]]]

\* pd.merge(left, right, on=on, how="left"); cols are the columns of the
\* right table that are not keys
RECURSIVE LeftMerge(_, _, _, _)
LeftMerge(left, right, on, cols) ==
    IF left = << >> THEN << >>
    ELSE MergeRow(Head(left), right, on, cols)
           \o LeftMerge(Tail(left), right, on, cols)

\* merge_columns = ["complaintid", "statusdate"]
MergeColumns == {"complaintid", "statusdate"}

\* the problem-detail columns the join adds
ProblemColumns == {"majorcategoryid", "minorcategoryid"}

\* the join of load_brownsville, from astype to the projection
JoinBrownsville(df_housing_maintenance, df_complaint_problems) ==
    LeftMerge(AsType(df_housing_maintenance), AsType(df_complaint_problems),
              MergeColumns, ProblemColumns)

(***************************************************************************)
(* The state.                                                              *)
(***************************************************************************)
VARIABLES
    now,       \* the local wall clock (datetime.now())
    version,   \* 0 before the remote datasets have grown, 1 after
    session,   \* the Client of the running session, if any
    meta,      \* the six metadata objects of the Client
    pickle,    \* the file metadata.pickle
    files,     \* the csv files of the data directory, by file name
    ncalls,    \* the number of load_* calls made so far
    last,      \* the last __get_results call: its arguments, the state
               \* it found and what it did
    join,      \* the last load_brownsville call: its tables and its end
    build,     \* the Brownsville object under construction
    addresses, \* the file address_table.json
    output,    \* the file brownsville.csv
    nruns,     \* the number of Brownsville constructions started so far
    streak     \* the number of constructions in a row that got through
               \* __load_dataset and __load_pluto with nothing else touching
               \* the data directory or the remote data in between

clientVars == <<session, meta, pickle, files, ncalls, last, join>>
buildVars == <<build, addresses, output, nruns>>
vars == <<now, version, clientVars, buildVars, streak>>

\* rowsUpdatedAt as the remote service reports it, by the remote clock: at
\* the local time 1 the later timestamp is ahead of the local clock
StampEarly == 0 + 1
StampLate == StampEarly + 1

\* the dataset whose load_* wrapper the model calls on its own: the five
\* wrappers differ in nothing but the metadata object they pass on
Called == {"pluto"}

\* which datasets report the later timestamp
SkewChoices == {{}} \cup {{d} : d \in Called \cup {"housing_maintenance"}}

\* the fault a call meets: none, or the remote call raises
RemoteFaults == {"none", "remote"}
\* ... or the write of the cache file raises
WriteFaults == {"write_kept", "write_torn"}

\* the kwargs a caller of load_* passes
CallKwargs(d) ==
    {EmptyKw, [limit |-> 1]} \cup
    CASE d = "housing_maintenance" -> {[where |-> WhereBoard16]}
      [] d = "pluto" -> {[where |-> WhereCd316]}
      [] d = "complaint_problems" -> {[where |-> <<Cond("complaintid", 100, 101)>>]}
      [] OTHER -> {}

NoSession == [open |-> FALSE, saves |-> 0, error |-> FALSE]

\* the metadata objects before any Client exists
NoMeta == [d \in Datasets |-> NewMetadata(d, StampEarly)]

NoLast ==
    [op |-> "none", d |-> "311", fetch_all |-> FALSE, load_local |-> FALSE,
     kwargs |-> EmptyKw, pre |-> NoMeta["311"], prefile |-> NoFile,
     outcome |-> "none", df |-> << >>, calls |-> << >>, t |-> 0,
     fault |-> "none", ver |-> 0]

NoJoin ==
    [outcome |-> "none", hm |-> << >>, cp |-> << >>, joined |-> << >>,
     calls |-> << >>]

\* lookups: the addresses get_lat_lng has been called for, in order;
\* down: the addresses whose lookup has raised; config_missing: whether
\* __load_config found no config.yaml; saved: the last call of save
NoSave ==
    [called |-> FALSE, overwrite_file |-> FALSE, inp |-> "", prompted |-> FALSE,
     before |-> NoFile]

NoBuild ==
    [pc |-> "idle", data |-> << >>, fetch_remote |-> FALSE, calls |-> << >>,
     files0 |-> [f \in Filenames |-> NoFile], lookups |-> << >>, down |-> {},
     config_missing |-> FALSE, saved |-> NoSave]

Init ==
    /\ build = NoBuild
    /\ addresses = [exists |-> FALSE, keys |-> {}]
    /\ output = NoFile
    /\ nruns = 0
    /\ streak = 0
    /\ now = 1
    /\ version = 0
    /\ session = NoSession
    /\ meta = NoMeta
    /\ pickle = [exists |-> FALSE, objs |-> NoMeta]
    /\ files = [f \in Filenames |-> NoFile]
    /\ ncalls = 0
    /\ last = NoLast
    /\ join = NoJoin

(***************************************************************************)
(* The environment: time passes, the remote datasets grow.                 *)
(***************************************************************************)
Tick ==
    /\ now < MaxTime
    /\ now' = now + 1
    /\ UNCHANGED <<version, clientVars, buildVars, streak>>

\* the remote datasets get the rows RemoteRows holds back at first
RemoteGrows ==
    /\ version < 1
    /\ version' = version + 1
    /\ streak' = 0
    /\ UNCHANGED <<now, clientVars, buildVars>>

(***************************************************************************)
(* Client: construction, close, the scoped session.                        *)
(***************************************************************************)
\* the branch of __load_metadata that asks the remote service
FetchMetadata(skew) ==
    LET stamp(d) == IF d \in skew THEN StampLate ELSE StampEarly
        date_1 == stamp("housing_maintenance")
        date_2 == stamp("complaint_problems")
    IN  [d \in Datasets |->
            IF d = "brownsville"
            THEN NewMetadata(d, IF date_1 < date_2 THEN date_1 ELSE date_2)
            ELSE NewMetadata(d, stamp(d))]

\* a faulty variant of LoadMetadata: the snapshot is not read
LoadMetadataAfresh(pk, fetched) ==
    [d \in Datasets |-> [fetched[d] EXCEPT !.loaded = FALSE]]

\* a faulty variant of LoadMetadata: updated_on of a restored object is
\* replaced by what the remote service reports
LoadMetadataRefreshing(pk, fetched) ==
    [d \in Datasets |->
        [(IF pk.exists THEN pk.objs[d] ELSE fetched[d])
            EXCEPT !.loaded = FALSE, !.updated_on = fetched[d].updated_on]]

\* the branch of __load_metadata that reads metadata.pickle, and the
\* reset of loaded that ends both branches
LoadMetadata(pk, fetched) ==
    [d \in Datasets |->
        [(IF pk.exists THEN pk.objs[d] ELSE fetched[d]) EXCEPT !.loaded = FALSE]]

\* the get_metadata calls of a construction without a snapshot
MetadataCalls ==
    << RemoteCall("get_metadata", "erm2-nwe9", EmptyKw),
       RemoteCall("get_metadata", "a2nx-4u46", EmptyKw),
       RemoteCall("get_metadata", "uwyv-629c", EmptyKw),
       RemoteCall("get_metadata", "eabe-havv", EmptyKw),
       RemoteCall("get_metadata", "64uk-42ks", EmptyKw) >>

\* __save_metadata: pickle.dump of the six objects
SaveMetadata(objs) == [exists |-> TRUE, objs |-> objs]

\* Client.close: the snapshot it writes
ClientClose(objs) == SaveMetadata(objs)

\* a faulty variant of ExitSuppresses: __exit__ returns a true value
ExitReturnsTrue == TRUE

\* Client.__exit__: return self.close(); close returns None, so an
\* exception raised in the block is not suppressed
ExitSuppresses == FALSE

\* a Client that finds metadata.pickle asks the remote service nothing:
\* what the service would have answered is then left open
Asked(skew, fault) == pickle.exists => skew = {} /\ fault = "none"

\* with Client(...) as c: Client.__init__ and __enter__
OpenSession(skew, fault) ==
    /\ ~session.open
    /\ Asked(skew, fault)
    /\ build.pc \in {"idle", "done", "failed"}
    /\ streak' = 0
    /\ IF ~pickle.exists /\ fault = "remote"
       THEN /\ last' = [NoLast EXCEPT !.op = "init", !.outcome = "remote_error",
                                       !.calls = SubSeq(MetadataCalls, 1, 1),
                                       !.t = now]
            /\ UNCHANGED <<session, meta>>
       ELSE /\ meta' = LoadMetadata(pickle, FetchMetadata(skew))
            /\ session' = [open |-> TRUE, saves |-> 0, error |-> FALSE]
            /\ last' = [NoLast EXCEPT !.op = "init", !.outcome = "ok",
                                       !.calls = IF pickle.exists THEN << >>
                                                 ELSE MetadataCalls,
                                       !.t = now]
    /\ UNCHANGED <<now, version, pickle, files, ncalls, join, buildVars>>

\* the session after the with block is left (error: by an exception) or
\* close is called
Closed(error) ==
    [open |-> FALSE, saves |-> session.saves + 1,
     error |-> error /\ ~ExitSuppresses]

\* leaving the with block normally: __exit__(None, None, None)
CloseSession ==
    /\ session.open
    /\ pickle' = ClientClose(meta)
    /\ session' = Closed(FALSE)
    /\ UNCHANGED <<now, version, meta, files, ncalls, last, join, buildVars,
                   streak>>

(***************************************************************************)
(* The load_* operations.                                                  *)
(***************************************************************************)
\* the record kept of a __get_results call
CallRecord(d, fetch_all, load_local, kwargs, M, F, res, t, fault, ver) ==
    [op |-> "get_results", d |-> d, fetch_all |-> fetch_all,
     load_local |-> load_local, kwargs |-> kwargs, pre |-> M[d],
     prefile |-> F[M[d].filename], outcome |-> res.outcome, df |-> res.df,
     calls |-> res.calls, t |-> t, fault |-> fault, ver |-> ver]

\* the with block is left by an exception: __exit__ saves the metadata
LeaveOnError(raised, M) ==
    IF raised
    THEN /\ pickle' = ClientClose(M)
         /\ session' = Closed(TRUE)
    ELSE UNCHANGED <<pickle, session>>

\* load_311, load_complaint_problems, load_housing_maintenance,
\* load_dob_complaints, load_pluto
LoadDataset(d, fetch_all, load_local, kwargs, fault) ==
    /\ session.open
    /\ ncalls < MaxCalls
    /\ LET fn == meta[d].filename
           res == GetResults(meta[d], files[fn], fetch_all, load_local,
                             kwargs, now, fault, version)
       IN  /\ meta' = [meta EXCEPT ![d] = res.meta]
           /\ files' = [files EXCEPT ![fn] = res.file]
           /\ last' = CallRecord(d, fetch_all, load_local, kwargs, meta,
                                 files, res, now, fault, version)
           /\ LeaveOnError(res.outcome # "ok", [meta EXCEPT ![d] = res.meta])
    /\ ncalls' = ncalls + 1
    /\ UNCHANGED <<now, version, join, buildVars, streak>>

\* the result of a load_brownsville that stops after its first query
BrownsvilleStopped(M1, F1, r1, rec1, outcome) ==
    [meta |-> M1, files |-> F1, outcome |-> outcome, hm |-> r1.df,
     cp |-> << >>, joined |-> << >>, calls |-> r1.calls, last |-> rec1]

\* load_brownsville from the merge on: r1 and r2 are the results of the
\* two queries, M2 and F2 the metadata and the files they left
BrownsvilleMerged(M2, F2, r1, r2, rec2, joined) ==
    [meta |-> M2,
     files |-> IF r2.outcome = "ok" /\ r2.df # << >>
               THEN [F2 EXCEPT ![M2["brownsville"].filename] = ToCsv(joined)]
               ELSE F2,
     outcome |-> IF r2.outcome # "ok" THEN r2.outcome
                 ELSE IF r2.df = << >> THEN "key_error" ELSE "ok",
     hm |-> r1.df, cp |-> r2.df,
     joined |-> IF r2.outcome = "ok" /\ r2.df # << >> THEN joined ELSE << >>,
     calls |-> r1.calls \o r2.calls, last |-> rec2]

\* load_brownsville once the complaint-problems query has returned r2
BrownsvilleProblems(M1, F1, r1, fetch_all, kw2, r2, t, fault2, ver) ==
    BrownsvilleMerged(
        [M1 EXCEPT !["complaint_problems"] = r2.meta],
        [F1 EXCEPT ![M1["complaint_problems"].filename] = r2.file],
        r1, r2,
        CallRecord("complaint_problems", fetch_all, TRUE, kw2, M1, F1, r2, t,
                   fault2, ver),
        JoinBrownsville(r1.df, r2.df))

\* load_brownsville from the complaint-problems query on
BrownsvilleSecond(M1, F1, r1, fetch_all, kw2, fault2, t, ver) ==
    BrownsvilleProblems(M1, F1, r1, fetch_all, kw2,
        GetResults(M1["complaint_problems"],
                   F1[M1["complaint_problems"].filename], fetch_all, TRUE,
                   kw2, t, fault2, ver),
        t, fault2, ver)

\* a faulty variant of BrownsvilleBounds: an empty slice goes on to a
\* complaint-problems query without bounds
BrownsvilleBoundsSkipped(M1, F1, r1, rec1, fetch_all, fault2, t, ver) ==
    IF r1.outcome # "ok" THEN BrownsvilleStopped(M1, F1, r1, rec1, r1.outcome)
    ELSE IF r1.df = << >>
         THEN BrownsvilleSecond(M1, F1, r1, fetch_all, EmptyKw, fault2, t, ver)
    ELSE IF ~Comparable(r1.df)
         THEN BrownsvilleStopped(M1, F1, r1, rec1, "type_error")
    ELSE BrownsvilleSecond(M1, F1, r1, fetch_all, ProblemsQuery(r1.df),
                           fault2, t, ver)

\* load_brownsville once the housing-maintenance query has returned r1:
\* min and max of an empty or a mixed column raise
BrownsvilleBounds(M1, F1, r1, rec1, fetch_all, fault2, t, ver) ==
    IF r1.outcome # "ok" THEN BrownsvilleStopped(M1, F1, r1, rec1, r1.outcome)
    ELSE IF r1.df = << >>
         THEN BrownsvilleStopped(M1, F1, r1, rec1, "empty_slice")
    ELSE IF ~Comparable(r1.df)
         THEN BrownsvilleStopped(M1, F1, r1, rec1, "type_error")
    ELSE BrownsvilleSecond(M1, F1, r1, fetch_all, ProblemsQuery(r1.df),
                           fault2, t, ver)

\* load_brownsville after its first query
BrownsvilleFirst(M, F, fetch_all, kw1, r1, fault1, fault2, t, ver) ==
    BrownsvilleBounds(
        [M EXCEPT !["housing_maintenance"] = r1.meta],
        [F EXCEPT ![M["housing_maintenance"].filename] = r1.file],
        r1,
        CallRecord("housing_maintenance", fetch_all, TRUE, kw1, M, F, r1, t,
                   fault1, ver),
        fetch_all, fault2, t, ver)

\* Client.load_brownsville(fetch_all) on the metadata M and the files F:
\* the state it leaves, the joined table it returns and how it ended
BrownsvilleResult(M, F, fetch_all, fault1, fault2, t, ver) ==
    BrownsvilleFirst(M, F, fetch_all, [where |-> WhereBoard16],
        GetResults(M["housing_maintenance"],
                   F[M["housing_maintenance"].filename], fetch_all, TRUE,
                   [where |-> WhereBoard16], t, fault1, ver),
        fault1, fault2, t, ver)

\* the state load_brownsville leaves
Joined(res) ==
    [outcome |-> res.outcome, hm |-> res.hm, cp |-> res.cp,
     joined |-> res.joined, calls |-> res.calls]

LoadBrownsvilleEnds(res) ==
    /\ meta' = res.meta
    /\ files' = res.files
    /\ last' = res.last
    /\ join' = Joined(res)
    /\ LeaveOnError(res.outcome # "ok", res.meta)

\* Client.load_brownsville(fetch_all)
LoadBrownsville(fetch_all, fault1, fault2) ==
    /\ session.open
    /\ ncalls < MaxCalls
    /\ LoadBrownsvilleEnds(BrownsvilleResult(meta, files, fetch_all, fault1,
                                             fault2, now, version))
    /\ ncalls' = ncalls + 1
    /\ UNCHANGED <<now, version, buildVars, streak>>

(***************************************************************************)
(* The specification of the client.                                        *)
(***************************************************************************)
Next ==
    \/ Tick
    \/ RemoteGrows
    \/ \E skew \in SkewChoices, fault \in RemoteFaults :
          OpenSession(skew, fault)
    \/ CloseSession
    \/ \E d \in Called, fetch_all \in BOOLEAN, load_local \in BOOLEAN,
          fault \in RemoteFaults :
          \E kwargs \in CallKwargs(d) :
             LoadDataset(d, fetch_all, load_local, kwargs, fault)

Spec == Init /\ [][Next]_vars

(***************************************************************************)
(* Brownsville.__init__: the construction of the unified table.            *)
(***************************************************************************)
\* the parameters of Client.load_brownsville(self, fetch_all=False)
LoadBrownsvilleParameters == {"fetch_all"}

\* a call binds its keyword arguments to parameters of the callee; a
\* keyword the callee does not have raises a TypeError
Accepts(parameters, keywords) == keywords \subseteq parameters

\* the select of the PLUTO query
SelectPluto ==
    "bbl, bldgclass, bldgarea, numbldgs, numfloors, unitsres, unitstotal, landuse, ownertype, ownername, yearbuilt, yearalter1, yearalter2"

\* the kwargs load_pluto hands to __get_results: verbose is not a
\* parameter of load_pluto, so it stays among them
PlutoQuery(fetch_remote) ==
    [verbose |-> fetch_remote, select |-> SelectPluto, where |-> WhereCd316]

\* self.data.sort_values(by='buildingid'): rows in the order of their
\* building id, equal ids in the order they had
RECURSIVE SortByBuilding(_)
SortByBuilding(df) ==
    IF df = << >> THEN << >>
    ELSE LET rest == SortByBuilding(Tail(df))
             r == Head(df)
         IN  SelectSeq(rest, LAMBDA x : x.buildingid < r.buildingid)
               \o <<r>>
               \o SelectSeq(rest, LAMBDA x : x.buildingid >= r.buildingid)

\* __set_addresses: house number and street name in one column
SetAddresses(df) ==
    [i \in 1..Len(df) |->
        df[i] @@ [address |-> <<df[i].housenumber, df[i].streetname>>]]

\* " ".join((street, city, str(zip_code)))
AddressKey(row) == <<row.address, row.borough, row.zip>>

\* __get_BBL
GetBBL(df) ==
    [i \in 1..Len(df) |->
        df[i] @@ [bbl |-> BBLOf(df[i].boroughid, df[i].block, df[i].lot)]]

\* the merge of __load_pluto
MergePluto(data, df_pluto) ==
    LeftMerge(data, AsType(df_pluto), {"bbl"}, {"ownertype"})

\* a faulty variant of FilterNoComplaints: the mask is not negated
FilterNoComplaintsKept(data) ==
    SelectSeq(data, LAMBDA r :
        r.majorcategoryid = NULL /\ r.minorcategoryid = NULL)

\* __filter_no_complaints
FilterNoComplaints(data) ==
    SelectSeq(data, LAMBDA r :
        ~(r.majorcategoryid = NULL /\ r.minorcategoryid = NULL))

\* the construction has raised
BuildFailed == [NoBuild EXCEPT !.pc = "failed"]

\* the session of a with block that has been left
SessionLeft(error) ==
    [open |-> FALSE, saves |-> 1, error |-> error /\ ~ExitSuppresses]

\* the record kept of a Client construction
InitRecord(pk, t) ==
    [NoLast EXCEPT !.op = "init", !.outcome = "ok",
                   !.calls = IF pk.exists THEN << >> ELSE MetadataCalls,
                   !.t = t]

\* the table __load_dataset has read or built
Loaded(data, fetch_remote, calls, F) ==
    [pc |-> "loaded", data |-> SortByBuilding(data),
     fetch_remote |-> fetch_remote, calls |-> calls, files0 |-> F,
     lookups |-> << >>, down |-> {}, config_missing |-> FALSE,
     saved |-> NoSave]

\* the else branch of __load_dataset once load_brownsville has returned
\* or raised; leaving the with block saves the metadata
LoadDatasetRebuilt(res) ==
    /\ meta' = res.meta
    /\ files' = res.files
    /\ last' = res.last
    /\ pickle' = ClientClose(res.meta)
    /\ session' = SessionLeft(res.outcome # "ok")
    /\ build' = IF res.outcome = "ok"
                THEN Loaded(res.joined, TRUE, res.calls, files)
                ELSE BuildFailed
    /\ streak' = IF res.outcome = "ok" THEN streak ELSE 0

\* the branch of __load_dataset that reads the cached table
LoadDatasetCached(M, file) ==
    /\ meta' = M
    /\ last' = InitRecord(pickle, now)
    /\ pickle' = ClientClose(M)
    /\ session' = SessionLeft(~file.ok)
    /\ build' = IF file.ok THEN Loaded(file.rows, FALSE, << >>, files)
                ELSE BuildFailed
    /\ streak' = IF file.ok THEN streak ELSE 0
    /\ UNCHANGED files

\* the else branch of __load_dataset when the call of load_brownsville
\* cannot bind its arguments
LoadDatasetRejected(M) ==
    /\ meta' = M
    /\ last' = InitRecord(pickle, now)
    /\ pickle' = ClientClose(M)
    /\ session' = SessionLeft(TRUE)
    /\ build' = BuildFailed
    /\ streak' = 0
    /\ UNCHANGED files

\* __load_dataset with the metadata M of its Client
LoadDatasetWith(M, force_load, fault1, fault2) ==
    IF ~force_load
       /\ ~(UpdateDue(M["complaint_problems"])
              \/ UpdateDue(M["housing_maintenance"]))
       /\ PathExists(files[M["brownsville"].filename])
    THEN LoadDatasetCached(M, files[M["brownsville"].filename])
    ELSE IF Accepts(LoadBrownsvilleParameters, {"fetch_all", "verbose"})
    THEN LoadDatasetRebuilt(BrownsvilleResult(M, files, TRUE, fault1, fault2,
                                              now, version))
    ELSE LoadDatasetRejected(M)

\* __init__ up to the end of __load_dataset
BuildLoadDataset(force_load, config_ok, skew, fault1, fault2) ==
    /\ build.pc \in {"idle", "done", "failed"}
    /\ ~session.open
    /\ nruns < MaxRuns
    /\ Asked(skew, "none")
    /\ nruns' = nruns + 1
    /\ IF ~config_ok \/ (~pickle.exists /\ fault1 = "remote")
       THEN \* self.config["geocode"] of the empty tuple, or Client(...),
            \* raises before the with block is entered
            /\ build' = [BuildFailed EXCEPT !.config_missing = ~config_ok]
            /\ streak' = 0
            /\ UNCHANGED <<session, meta, pickle, files, last>>
       ELSE LoadDatasetWith(LoadMetadata(pickle, FetchMetadata(skew)),
                            force_load, fault1, fault2)
    /\ UNCHANGED <<now, version, ncalls, join, addresses, output>>

\* a faulty variant of UniqueAddresses: one entry for every row
EveryAddress(df) == [i \in 1..Len(df) |-> AddressKey(df[i])]

\* self.data[columns].groupby(columns).size().index: every (address,
\* borough, zip) of the table once; the table is sorted by building id,
\* and the addresses follow that order
RECURSIVE UniqueAddresses(_)
UniqueAddresses(df) ==
    IF df = << >> THEN << >>
    ELSE LET rest == UniqueAddresses(SubSeq(df, 1, Len(df) - 1))
             address == AddressKey(df[Len(df)])
         IN  IF \E i \in 1..Len(rest) : rest[i] = address
             THEN rest
             ELSE Append(rest, address)

\* the loop over the unique addresses: get_lat_lng is called for one
\* address after the other, and a call that raises ends the loop
RECURSIVE LookedUp(_, _)
LookedUp(unique_addresses, down) ==
    IF unique_addresses = << >> THEN << >>
    ELSE IF Head(unique_addresses) \in down THEN << Head(unique_addresses) >>
    ELSE << Head(unique_addresses) >> \o LookedUp(Tail(unique_addresses), down)

\* the addresses a geocoding service may fail for: none, or one of them
DownChoices ==
    {{}} \cup
    {{AddressKey(r)} :
        r \in {SetAddresses(RemoteRows("uwyv-629c"))[i] :
                  i \in 1..Len(RemoteRows("uwyv-629c"))}}

\* the pair the geocoding service answers for an address, which is also
\* the pair an address table holds for it
LatLng(address) == << 40 + address[1][1], 0 - 73 - address[1][1] >>

\* the loop over the rows: lat, lng = address_to_coord[address]
Broadcast(data) ==
    [i \in 1..Len(data) |->
        data[i] @@ [latitude |-> LatLng(AddressKey(data[i]))[1],
                    longitude |-> LatLng(AddressKey(data[i]))[2]]]

\* the branch of __get_spatial_information that builds the address table:
\* the table is written once every address has been looked up; json.dump
\* returns None, which then stands for the table in the loop over the rows
SpatialCold(data, keys, lookups, down) ==
    /\ addresses' = IF down = {}
                    THEN [exists |-> TRUE, keys |-> keys]
                    ELSE addresses
    /\ build' = IF keys = {}
                THEN [build EXCEPT !.pc = "enriched",
                                   !.data = GetBBL(Broadcast(data))]
                ELSE [BuildFailed EXCEPT !.data = data, !.lookups = lookups,
                                         !.down = down]
    /\ streak' = IF keys = {} THEN streak ELSE 0

\* the branch of __get_spatial_information that reads the address table:
\* address_to_coord[address] of every row
SpatialWarm(data, keys) ==
    /\ build' = IF keys \subseteq addresses.keys
                THEN [build EXCEPT !.pc = "enriched",
                                   !.data = GetBBL(Broadcast(data))]
                ELSE [BuildFailed EXCEPT !.data = data]
    /\ streak' = IF keys \subseteq addresses.keys THEN streak ELSE 0
    /\ UNCHANGED addresses

\* __get_spatial_information on the table with its address column
SpatialInformation(data, keys, down) ==
    /\ down \subseteq keys
    /\ IF addresses.exists
       THEN down = {} /\ SpatialWarm(data, keys)
       ELSE SpatialCold(data, keys, LookedUp(UniqueAddresses(data), down),
                        down)

\* __set_addresses, __fill_zip_codes, __get_spatial_information, __get_BBL;
\* down: the addresses the geocoding service fails for
BuildEnrich(down) ==
    /\ build.pc = "loaded"
    /\ SpatialInformation(
          SetAddresses(build.data),
          {AddressKey(SetAddresses(build.data)[i]) : i \in 1..Len(build.data)},
          down)
    /\ UNCHANGED <<now, version, clientVars, output, nruns>>

\* __load_pluto once load_pluto has returned or raised; df_pluto["bbl"] of
\* a table without columns raises
LoadPlutoEnds(M, kwargs, res, fault) ==
    /\ meta' = [M EXCEPT !["pluto"] = res.meta]
    /\ pickle' = ClientClose([M EXCEPT !["pluto"] = res.meta])
    /\ session' = SessionLeft(~(res.outcome = "ok" /\ res.df # << >>))
    /\ files' = [files EXCEPT ![M["pluto"].filename] = res.file]
    /\ last' = CallRecord("pluto", TRUE, TRUE, kwargs, M, files, res, now,
                          fault, version)
    /\ build' = IF res.outcome = "ok" /\ res.df # << >>
                THEN [build EXCEPT !.pc = "merged",
                                   !.data = MergePluto(build.data, res.df),
                                   !.calls = build.calls \o res.calls]
                ELSE BuildFailed
    /\ streak' = IF res.outcome = "ok" /\ res.df # << >> THEN streak + 1 ELSE 0

\* __load_pluto with the metadata M of its Client
LoadPlutoWith(M, kwargs, fault) ==
    LoadPlutoEnds(M, kwargs,
        GetResults(M["pluto"], files[M["pluto"].filename], TRUE, TRUE, kwargs,
                   now, fault, version),
        fault)

\* __load_pluto
BuildLoadPluto(fault) ==
    /\ build.pc = "enriched"
    /\ pickle.exists
    /\ LoadPlutoWith(LoadMetadata(pickle, NoMeta),
                     PlutoQuery(build.fetch_remote), fault)
    /\ UNCHANGED <<now, version, ncalls, join, addresses, output, nruns>>

\* __parse_datatypes, __fill_na, __translate_ids, __filter_no_complaints,
\* __filter_descriptions, save(overwrite_file=True)
BuildFinish(translations_ok) ==
    /\ build.pc = "merged"
    /\ IF translations_ok
       THEN /\ build' = [build EXCEPT !.pc = "done",
                                      !.data = FilterNoComplaints(build.data)]
            /\ output' = ToCsv(FilterNoComplaints(build.data))
       ELSE /\ build' = BuildFailed
            /\ UNCHANGED output
    /\ UNCHANGED <<now, version, clientVars, addresses, nruns, streak>>

(***************************************************************************)
(* The specification of the construction: a caller prepares the data       *)
(* directory with load_brownsville and constructs Brownsville objects.     *)
(***************************************************************************)
NextBuild ==
    \/ Tick
    \/ RemoteGrows
    \/ \E skew \in SkewChoices, fault \in RemoteFaults :
          OpenSession(skew, fault)
    \/ CloseSession
    \/ \E fetch_all \in BOOLEAN, fault1 \in RemoteFaults, fault2 \in RemoteFaults :
          LoadBrownsville(fetch_all, fault1, fault2)
    \/ \E force_load \in BOOLEAN, config_ok \in BOOLEAN, skew \in SkewChoices,
          fault1 \in RemoteFaults, fault2 \in RemoteFaults :
          BuildLoadDataset(force_load, config_ok, skew, fault1, fault2)
    \/ \E down \in DownChoices : BuildEnrich(down)
    \/ \E fault \in RemoteFaults : BuildLoadPluto(fault)
    \/ \E translations_ok \in BOOLEAN : BuildFinish(translations_ok)

SpecBuild == Init /\ [][NextBuild]_vars

(***************************************************************************)
(* The claims about Client.__get_results and the scoped session, stated    *)
(* on the record of the last call (last) and the state the call left.      *)
(***************************************************************************)
\* the last operation was a __get_results call with fetch_all
FetchedAll == last.op = "get_results" /\ last.fetch_all

\* the parameters of the last call are the stored last_query
SameQuery ==
    ~last.pre.last_query.isNone /\ last.pre.last_query.kw = last.kwargs

\* ... that found a readable cache file it may use and an unchanged query
FoundCache ==
    /\ FetchedAll
    /\ last.load_local
    /\ PathExists(last.prefile)
    /\ last.prefile.ok
    /\ SameQuery

\* the state WARM_FRESH: the cache is not older than the remote data
WarmFresh == FoundCache /\ last.pre.cache_date >= last.pre.updated_on

\* the state WARM_STALE: the cache is older than the remote data
WarmStale == FoundCache /\ last.pre.cache_date < last.pre.updated_on

\* the metadata and the cache file of the dataset of the last call
MetaNow == meta[last.d]
FileNow == files[last.pre.filename]

\* C1: a fetch_all call with load_local that finds the cache file, an
\* unchanged query and a cache_date not earlier than updated_on issues no
\* remote call and, unless the disk fails it, returns exactly the rows of
\* the cache file.
C1_WarmFreshServesCache ==
    WarmFresh => /\ last.calls = << >>
                 /\ last.fault \notin WriteFaults =>
                       /\ last.outcome = "ok"
                       /\ last.df = last.prefile.rows

\* C1 happens: a warm and fresh cache with rows has been served
C1_Witness ==
    /\ WarmFresh
    /\ last.df # << >>
    /\ last.pre.cache_date = last.pre.updated_on

\* the last call followed a call with other query parameters
QueryChanged ==
    /\ FetchedAll
    /\ ~last.pre.last_query.isNone
    /\ last.pre.last_query.kw # last.kwargs

\* the last call issued a get_all with an offset it injected
DeltaTaken ==
    \E i \in 1..Len(last.calls) :
        /\ last.calls[i].fn = "get_all"
        /\ "offset" \in DOMAIN last.calls[i].params
        /\ "offset" \notin DOMAIN last.kwargs

\* C2: a fetch_all call whose query parameters differ from those of the
\* call before it on the same metadata issues exactly one get_all with the
\* parameters as given (no injected offset), cache file or not, returns
\* what the remote service answers and leaves last_query equal to its
\* parameters; and a get_all with an injected offset is only ever issued
\* when the parameters equal the stored last_query.
C2_ChangedQueryFetchesWhole ==
    /\ QueryChanged =>
          /\ last.calls = <<RemoteCall("get_all", last.pre.endpoint, last.kwargs)>>
          /\ last.outcome = "ok" =>
                /\ MetaNow.last_query = SomeQuery(last.kwargs)
                /\ last.df = RemoteGetAll(last.pre.endpoint, last.kwargs, last.ver)
    /\ (last.op = "get_results" /\ DeltaTaken) => SameQuery

\* C2 happens: the query changed although a cache file was there to use
C2_Witness ==
    /\ QueryChanged
    /\ last.load_local
    /\ PathExists(last.prefile)
    /\ last.outcome = "ok"
    /\ MetaNow.last_query # last.pre.last_query

\* the rows the remote service returned to the delta fetch of the last call
DeltaRows ==
    RemoteGetAll(last.pre.endpoint, last.calls[1].params, last.ver)

\* C3: after a fetch_all call that finds the cache file, an unchanged query
\* and a cache_date earlier than updated_on, the row count of the cache
\* file and the offset both equal the offset before the call plus the
\* number of rows the delta fetch returned, and cache_date is the time of
\* the call.
C3_WarmStaleAppends ==
    (WarmStale /\ last.outcome = "ok") =>
        /\ Len(last.calls) = 1
        /\ Len(FileNow.rows) = last.pre.offset + Len(DeltaRows)
        /\ MetaNow.offset = last.pre.offset + Len(DeltaRows)
        /\ MetaNow.cache_date = last.t

\* C3 happens: a stale cache with rows has got new rows
C3_Witness ==
    /\ WarmStale
    /\ last.outcome = "ok"
    /\ last.pre.offset > 0
    /\ Len(DeltaRows) > 0

\* C5: a call without fetch_all leaves the offset, the cache_date and the
\* last_query of the metadata and the cache file as they were, whatever
\* the parameters and whether or not there is a cache file.
C5_PeekLeavesCache ==
    (last.op = "get_results" /\ ~last.fetch_all) =>
        /\ MetaNow.offset = last.pre.offset
        /\ MetaNow.cache_date = last.pre.cache_date
        /\ MetaNow.last_query = last.pre.last_query
        /\ FileNow = last.prefile

\* C5 happens: a bounded read with parameters, answered by the remote
\* service, of a dataset that has synced before
C5_Witness ==
    /\ last.op = "get_results"
    /\ ~last.fetch_all
    /\ last.outcome = "ok"
    /\ last.calls # << >>
    /\ last.kwargs # EmptyKw
    /\ ~last.pre.last_query.isNone
    /\ last.pre.last_query.kw # last.kwargs

\* the remote service failed during the last call
RemoteFailed ==
    /\ last.op = "get_results"
    /\ last.fault = "remote"
    /\ last.calls # << >>

\* C6: when the remote service fails during a call (whole fetch, delta
\* fetch or bounded read) the call raises, the error leaves the with block
\* of the caller, exactly one remote call was attempted and no table is
\* returned in its place.
C6_RemoteErrorPropagates ==
    RemoteFailed =>
        /\ Len(last.calls) = 1
        /\ last.outcome = "remote_error"
        /\ last.df = << >>
        /\ ~session.open
        /\ session.error

\* C6 happens: the remote service failed although a cache file was there
C6_Witness ==
    /\ RemoteFailed
    /\ PathExists(last.prefile)
    /\ last.prefile.rows # << >>

\* C8: once a with block has been left, normally or by an error, the
\* metadata snapshot has been written exactly once and holds the metadata
\* of all datasets as the session left them; and an error raised in the
\* block has reached the caller.
C8_ExitSavesOnce ==
    (~session.open /\ session.saves > 0) =>
        /\ session.saves = 1
        /\ pickle = [exists |-> TRUE, objs |-> meta]
        /\ (last.op = "get_results" /\ last.outcome # "ok") => session.error

\* C8 happens: a with block that changed the metadata was left by an error
C8_Witness ==
    /\ ~session.open
    /\ session.saves = 1
    /\ session.error
    /\ last.op = "get_results"
    /\ last.outcome # "ok"
    /\ \E d \in Datasets : meta[d].cache_date # NeverSynced

(***************************************************************************)
(* The specification of the client on a disk that can fail: the write of   *)
(* a cache file may raise and leave the old file or an unparseable one.    *)
(***************************************************************************)
NextFaults ==
    \/ Next
    \/ \E d \in Called, load_local \in BOOLEAN, fault \in WriteFaults :
          \E kwargs \in CallKwargs(d) :
             LoadDataset(d, TRUE, load_local, kwargs, fault)

SpecFaults == Init /\ [][NextFaults]_vars

\* the last call was a fetch_all call with load_local and an unchanged
\* query that found a cache file it could not parse, and met no other fault
FoundUnreadableCache ==
    /\ FetchedAll
    /\ last.load_local
    /\ PathExists(last.prefile)
    /\ ~last.prefile.ok
    /\ SameQuery
    /\ last.fault = "none"

\* C7: a fetch_all call with an unchanged query that finds a cache file it
\* cannot parse does not fail: it fetches the whole dataset from the
\* remote service and replaces the cache file and the metadata with what
\* it fetched.
C7_UnreadableCacheRefetches ==
    FoundUnreadableCache =>
        /\ last.outcome = "ok"
        /\ last.calls = <<RemoteCall("get_all", last.pre.endpoint, last.kwargs)>>
        /\ FileNow = ToCsv(last.df)
        /\ MetaNow.offset = Len(last.df)

\* what the code does instead: the call raises the read error, asks the
\* remote service nothing and leaves the file as it found it
C7_UnreadableCacheRaises ==
    FoundUnreadableCache =>
        /\ last.outcome = "read_error"
        /\ last.calls = << >>
        /\ FileNow = last.prefile
        /\ session.error

(***************************************************************************)
(* The join of load_brownsville on its own: the two tables are drawn from  *)
(* all tables of at most MaxRows rows over a few keys and categories.      *)
(***************************************************************************)
\* the tables of at most MaxRows rows over a set of rows
Tables(rows) == UNION {[1..n -> rows] : n \in 0..MaxRows}

SliceRows == {HMRow(cid, sdate, 7, 16, 7, 42) : cid \in {100, 101}, sdate \in {1, 2}}

ProblemRows ==
    {CPRow(cid, sdate, major, 349) :
        cid \in {100, 101}, sdate \in {1, 2}, major \in {NULL, 9}}

InitJoin ==
    /\ join \in {[NoJoin EXCEPT !.hm = hm, !.cp = cp] :
                   hm \in Tables(SliceRows), cp \in Tables(ProblemRows)}
    /\ build = NoBuild
    /\ addresses = [exists |-> FALSE, keys |-> {}]
    /\ output = NoFile
    /\ nruns = 0
    /\ streak = 0
    /\ now = 1
    /\ version = 0
    /\ session = NoSession
    /\ meta = NoMeta
    /\ pickle = [exists |-> FALSE, objs |-> NoMeta]
    /\ files = [f \in Filenames |-> NoFile]
    /\ ncalls = 0
    /\ last = NoLast

\* load_brownsville from astype to the projection, on the two tables
DoJoin ==
    /\ join.outcome = "none"
    /\ join' = [join EXCEPT !.outcome = "ok",
                            !.joined = JoinBrownsville(join.hm, join.cp)]
    /\ UNCHANGED <<now, version, session, meta, pickle, files, ncalls, last,
                   buildVars, streak>>

NextJoin == DoJoin

SpecJoin == InitJoin /\ [][NextJoin]_vars

\* a row of the joined table carries the values of a row of the slice
Carries(r, h) == \A k \in DOMAIN h \ {"parsed"} : r[k] = h[k]

\* a complaint-problems row has the complaint id and status date of h
Matches(c, h) == c.complaintid = h.complaintid /\ c.statusdate = h.statusdate

\* how often h occurs in the slice, how many complaint-problems rows match
\* it and how many rows of the joined table carry it
Occurrences(h) == Cardinality({i \in 1..Len(join.hm) : Carries(join.hm[i], h)})
MatchCount(h) == Cardinality({i \in 1..Len(join.cp) : Matches(join.cp[i], h)})
Appearances(h) ==
    Cardinality({j \in 1..Len(join.joined) : Carries(join.joined[j], h)})

\* the rows of the slice
Slice == {join.hm[i] : i \in 1..Len(join.hm)}

\* a row of the slice without a match appears with null problem details
NullWhenUnmatched ==
    \A h \in Slice : MatchCount(h) = 0 =>
        \A j \in 1..Len(join.joined) : Carries(join.joined[j], h) =>
            \A c \in ProblemColumns : join.joined[j][c] = NULL

\* C9 as stated: every row of the slice appears exactly once in the joined
\* table, with null problem-detail columns when no complaint-problems row
\* has its complaint id and status date.
C9_EachRowOnce ==
    join.outcome = "ok" =>
        /\ \A h \in Slice : Appearances(h) = Occurrences(h)
        /\ NullWhenUnmatched

\* C9 as the code has it: every row of the slice appears once with null
\* problem-detail columns when no complaint-problems row has its complaint
\* id and status date, and otherwise once for each complaint-problems row
\* that has them; the joined table holds nothing else.
C9_EachRowOncePerProblem ==
    join.outcome = "ok" =>
        /\ \A h \in Slice :
              Appearances(h) =
                 Occurrences(h) * (IF MatchCount(h) = 0 THEN 1 ELSE MatchCount(h))
        /\ NullWhenUnmatched
        /\ \A j \in 1..Len(join.joined) :
              \E h \in Slice : Carries(join.joined[j], h)

\* C9 happens: one row of the slice has two matches and another has none
C9_Witness ==
    /\ join.outcome = "ok"
    /\ \E h \in Slice : MatchCount(h) = 2 /\ Appearances(h) = 2
    /\ \E h \in Slice : MatchCount(h) = 0 /\ Appearances(h) = 1

(***************************************************************************)
(* The claims about the construction of the Brownsville object.            *)
(***************************************************************************)
\* the construction under way is the second in a row that got through
\* __load_dataset and __load_pluto, with the remote datasets unchanged and
\* the data directory as the run before left it
Repeated == build.pc \in {"merged", "done"} /\ streak >= 2

\* the cache tables have the rows they had when the construction began
CachesKept == \A f \in Filenames : files[f].rows = build.files0[f].rows

\* C4 as stated: the second of two runs in a row issues no get and no
\* get_all for housing maintenance, complaint problems or PLUTO and leaves
\* every cache table with the same rows.
C4_RepeatFetchesNothing ==
    Repeated => build.calls = << >> /\ CachesKept

\* the PLUTO cache the second run found was not older than the remote data
PlutoFresh ==
    /\ last.op = "get_results"
    /\ last.d = "pluto"
    /\ last.pre.cache_date >= last.pre.updated_on

\* C4 as the code has it: the second of two runs in a row leaves every
\* cache table with the same rows; it issues no get and no get_all when
\* the PLUTO cache_date the first run left is not earlier than PLUTO's
\* updated_on, and otherwise nothing but one get_all for PLUTO from the
\* stored offset on.
C4_RepeatFetchesNothingWhenFresh ==
    Repeated =>
        /\ CachesKept
        /\ PlutoFresh => build.calls = << >>
        /\ ~PlutoFresh =>
              build.calls = <<RemoteCall("get_all", "64uk-42ks",
                                WithOffset(last.kwargs, last.pre.offset))>>

\* C4 happens: a second run in a row found all its caches fresh and the
\* PLUTO cache filled by the run before
C4_Witness ==
    /\ Repeated
    /\ build.pc = "done"
    /\ PlutoFresh
    /\ last.prefile.rows # << >>
    /\ Len(build.data) > 0

\* a table has no row without a major and without a minor category id
Categorised(rows) ==
    \A i \in 1..Len(rows) :
        rows[i].majorcategoryid # NULL \/ rows[i].minorcategoryid # NULL

\* C10: once the construction has completed, every row of the final table
\* and of the saved file brownsville.csv has a major category id or a minor
\* category id.
C10_OutputCategorised ==
    /\ build.pc = "done" => Categorised(build.data) /\ output = ToCsv(build.data)
    /\ Categorised(output.rows)

\* C10 happens: a construction completed with rows left, from a joined
\* table that had rows without either category id
C10_Witness ==
    /\ build.pc = "done"
    /\ build.data # << >>
    /\ ~Categorised(files["brownsville-complaints-raw.csv"].rows)
    /\ output.rows # << >>

(***************************************************************************)
(* The claims about the complaint-problems query of load_brownsville.      *)
(***************************************************************************)
\* the last call was the complaint-problems query of a load_brownsville
\* whose housing-maintenance slice is join.hm
QueriedProblems ==
    /\ last.op = "get_results"
    /\ last.d = "complaint_problems"
    /\ join.outcome # "none"
    /\ join.hm # << >>

\* the numerically smallest and largest value of a column of the slice
SmallestOf(col) ==
    CHOOSE v \in {join.hm[i][col] : i \in 1..Len(join.hm)} :
        \A i \in 1..Len(join.hm) : v <= join.hm[i][col]
LargestOf(col) ==
    CHOOSE v \in {join.hm[i][col] : i \in 1..Len(join.hm)} :
        \A i \in 1..Len(join.hm) : v >= join.hm[i][col]

\* C11 as stated: the where clause of the complaint-problems query has as
\* lower bound of statusdate the earliest status date of the slice and as
\* range of complaintid the numerically smallest and largest complaint id
\* of the slice, whether the slice came from the remote service or from
\* the cache file.
C11_BoundsAreNumeric ==
    QueriedProblems =>
        last.kwargs.where =
            << Cond("statusdate", SmallestOf("statusdate"), NoUpperBound),
               Cond("complaintid", SmallestOf("complaintid"),
                    LargestOf("complaintid")) >>

\* what the code does: a slice read back from the cache file gives the
\* numeric bounds; a slice as the remote service returns it gives the
\* bounds of the ids compared as strings
C11_BoundsAsCompared ==
    QueriedProblems =>
        /\ last.kwargs.where[1].lo = SmallestOf("statusdate")
        /\ join.hm[1].parsed =>
              /\ last.kwargs.where[2].lo = SmallestOf("complaintid")
              /\ last.kwargs.where[2].hi = LargestOf("complaintid")
        /\ ~join.hm[1].parsed =>
              \A i \in 1..Len(join.hm) :
                 /\ ~StrLess(Digits(join.hm[i].complaintid),
                             Digits(last.kwargs.where[2].lo))
                 /\ ~StrLess(Digits(last.kwargs.where[2].hi),
                             Digits(join.hm[i].complaintid))

\* C11 happens: a slice from the remote service holds ids of two and of
\* three digits, and the range of the query is empty
C11_Witness ==
    /\ QueriedProblems
    /\ ~join.hm[1].parsed
    /\ last.kwargs.where[2].lo > last.kwargs.where[2].hi

(***************************************************************************)
(* The specification of load_brownsville against a remote service whose    *)
(* datasets hold no row at first.                                          *)
(***************************************************************************)
InitSlice ==
    /\ build = NoBuild
    /\ addresses = [exists |-> FALSE, keys |-> {}]
    /\ output = NoFile
    /\ nruns = 0
    /\ streak = 0
    /\ now = 1
    /\ version = NULL
    /\ session = NoSession
    /\ meta = NoMeta
    /\ pickle = [exists |-> FALSE, objs |-> NoMeta]
    /\ files = [f \in Filenames |-> NoFile]
    /\ ncalls = 0
    /\ last = NoLast
    /\ join = NoJoin

NextSlice ==
    \/ Tick
    \/ RemoteGrows
    \/ \E skew \in SkewChoices, fault \in RemoteFaults :
          OpenSession(skew, fault)
    \/ CloseSession
    \/ \E fetch_all \in BOOLEAN, fault1 \in RemoteFaults, fault2 \in RemoteFaults :
          LoadBrownsville(fetch_all, fault1, fault2)

SpecSlice == InitSlice /\ [][NextSlice]_vars

\* l and j are the records of a load_brownsville whose housing-maintenance
\* query returned, and returned no row
EmptySlice(l, j) ==
    /\ l.op = "get_results"
    /\ j.outcome # "none"
    /\ j.hm = << >>
    /\ ~(l.d = "housing_maintenance" /\ l.outcome # "ok")

\* C12: a load_brownsville whose housing-maintenance slice is empty ends
\* with an error, has made no remote call for the complaint problems, has
\* left the metadata and the cache of the complaint problems alone and has
\* written no unified table.
C12_EmptySliceFails ==
    [][ ((last' # last \/ join' # join) /\ EmptySlice(last', join')) =>
           /\ join'.outcome \notin {"ok", "none"}
           /\ session'.error
           /\ \A i \in 1..Len(join'.calls) :
                 join'.calls[i].endpoint # EndpointOf("complaint_problems")
           /\ meta'["complaint_problems"] = meta["complaint_problems"]
           /\ files'[FilenameOf(NameOf("complaint_problems"))] =
                 files[FilenameOf(NameOf("complaint_problems"))]
           /\ files'[FilenameOf(NameOf("brownsville"))] =
                 files[FilenameOf(NameOf("brownsville"))] ]_vars

\* C12 happens: load_brownsville has met an empty slice, once from the
\* remote service and once from the cache file
C12_Witness ==
    /\ EmptySlice(last, join)
    /\ last.calls = << >>
    /\ last.prefile.exists

(***************************************************************************)
(* The specification of __get_BBL as a function: two rows with borough     *)
(* ids, blocks and lots drawn from their ranges get their bbl.             *)
(***************************************************************************)
Boroughs == {1, 3, 9}
Blocks == {0, 1, 7, 12, 99999}
Lots == {0, 3, 23, 42, 9999}

LotRow(boroughid, block, lot) ==
    [boroughid |-> boroughid, block |-> block, lot |-> lot, parsed |-> TRUE]

InitBBL ==
    /\ \E b1 \in Boroughs, b2 \in Boroughs, k1 \in Blocks, k2 \in Blocks,
          l1 \in Lots, l2 \in Lots :
          build = [NoBuild EXCEPT !.pc = "bbl",
                                  !.data = << LotRow(b1, k1, l1),
                                              LotRow(b2, k2, l2) >>]
    /\ addresses = [exists |-> FALSE, keys |-> {}]
    /\ output = NoFile
    /\ nruns = 0
    /\ streak = 0
    /\ now = 1
    /\ version = 0
    /\ session = NoSession
    /\ meta = NoMeta
    /\ pickle = [exists |-> FALSE, objs |-> NoMeta]
    /\ files = [f \in Filenames |-> NoFile]
    /\ ncalls = 0
    /\ last = NoLast
    /\ join = NoJoin

DoBBL ==
    /\ build.pc = "bbl"
    /\ build' = [build EXCEPT !.pc = "keyed", !.data = GetBBL(build.data)]
    /\ UNCHANGED <<now, version, clientVars, addresses, output, nruns, streak>>

NextBBL == DoBBL

SpecBBL == InitBBL /\ [][NextBBL]_vars

\* the number a string of digits writes
RECURSIVE NumOf(_)
NumOf(s) ==
    IF s = << >> THEN 0 ELSE 10 * NumOf(SubSeq(s, 1, Len(s) - 1)) + s[Len(s)]

\* the bbl is borough * 10^9 + block * 10^4 + lot, written by its ten
\* digits: the first six write borough * 10^5 + block, the last four lot
IsBBLOf(bbl, row) ==
    /\ Len(bbl) = 10
    /\ NumOf(SubSeq(bbl, 1, 6)) = row.boroughid * 100000 + row.block
    /\ NumOf(SubSeq(bbl, 7, 10)) = row.lot

\* C13: for borough ids in 1..9, blocks in 0..99999 and lots in 0..9999
\* the bbl is the ten-digit integer borough * 10^9 + block * 10^4 + lot;
\* rows with different (borough, block, lot) get different bbl, and borough,
\* block and lot are read back from the digits of the bbl.
C13_BBLIsPositional ==
    build.pc = "keyed" =>
        /\ \A i \in 1..Len(build.data) :
              /\ IsBBLOf(build.data[i].bbl, build.data[i])
              /\ build.data[i].boroughid = NumOf(SubSeq(build.data[i].bbl, 1, 1))
              /\ build.data[i].block = NumOf(SubSeq(build.data[i].bbl, 2, 6))
              /\ build.data[i].lot = NumOf(SubSeq(build.data[i].bbl, 7, 10))
        /\ build.data[1].bbl = build.data[2].bbl =>
              build.data[1] = build.data[2]

\* C13 happens: borough 3, block 7, lot 42 gets 3000070042, next to a row
\* whose unpadded digits would be the same as those of another
C13_Witness ==
    /\ build.pc = "keyed"
    /\ build.data[1].boroughid = 3
    /\ build.data[1].block = 7
    /\ build.data[1].lot = 42
    /\ build.data[1].bbl = <<3, 0, 0, 0, 0, 7, 0, 0, 4, 2>>
    /\ build.data[2].block = 12
    /\ build.data[2].lot = 3

(***************************************************************************)
(* The claims about the spatial enrichment.                                *)
(***************************************************************************)
\* __get_spatial_information has run on the table build.data and has
\* raised, or has returned and __get_BBL has added the bbl
Enriched == build.pc = "enriched" \/ (build.pc = "failed" /\ build.data # << >>)

\* how often get_lat_lng has been called for an address
TimesLookedUp(address) ==
    Cardinality({i \in 1..Len(build.lookups) : build.lookups[i] = address})

\* C14: in one run of the spatial enrichment get_lat_lng is called at most
\* once for every (street, city, zip) of the table, and for nothing else;
\* a row that repeats an address gets no call of its own.
C14_OneLookupPerAddress ==
    Enriched =>
        /\ \A i \in 1..Len(build.data) :
              TimesLookedUp(AddressKey(build.data[i])) <= 1
        /\ \A j \in 1..Len(build.lookups) :
              \E i \in 1..Len(build.data) :
                 build.lookups[j] = AddressKey(build.data[i])

\* C14 happens: every address of a table in which two rows share an
\* address has been looked up
C14_Witness ==
    /\ Enriched
    /\ build.down = {}
    /\ \E i \in 1..Len(build.data) : \E j \in 1..Len(build.data) :
          i # j /\ AddressKey(build.data[i]) = AddressKey(build.data[j])
    /\ \A i \in 1..Len(build.data) :
          TimesLookedUp(AddressKey(build.data[i])) = 1

\* C15 as stated: when get_lat_lng fails for one address, the enrichment
\* goes on: the other addresses are still looked up and the run completes.
C15_FailedLookupTolerated ==
    (Enriched /\ build.down # {}) =>
        /\ build.pc = "enriched"
        /\ \A i \in 1..Len(build.data) :
              TimesLookedUp(AddressKey(build.data[i])) = 1

\* what the code does: the first lookup that fails ends the construction,
\* no later address is looked up and no address table is written
C15_FailedLookupAborts ==
    (Enriched /\ build.down # {}) =>
        /\ build.pc = "failed"
        /\ build.lookups # << >>
        /\ build.lookups[Len(build.lookups)] \in build.down
        /\ ~addresses.exists

(***************************************************************************)
(* The claims about the rest of the construction.                          *)
(***************************************************************************)
\* C16 as stated: when config.yaml is missing, the construction does not
\* fail because of it and goes on with clients without credentials.
C16_MissingConfigTolerated == build.config_missing => build.pc # "failed"

\* what the code does: __load_config returns the empty tuple and
\* self.config["geocode"] raises before any client exists
C16_MissingConfigRaises ==
    [][(nruns' # nruns /\ build'.config_missing) =>
          /\ build'.pc = "failed"
          /\ UNCHANGED <<session, meta, pickle, files, last, addresses>>]_vars

(***************************************************************************)
(* The specification of save: a constructed object whose table is drawn    *)
(* from a few tables, and an output file that is absent or holds one of    *)
(* them; the caller saves with and without the flag and answers the        *)
(* prompt.                                                                 *)
(***************************************************************************)
\* what the user types at the prompt
Answers == {"y", "Y", "n", "yes", ""}

\* inp.lower()
Lower(inp) == IF inp = "Y" THEN "y" ELSE inp

\* whether save asks: the file exists and overwrite_file is not set
SavePrompts(file, overwrite_file) == PathExists(file) /\ ~overwrite_file

\* a faulty variant of SaveWrites: an answer is only asked for, not used
SaveWritesWhateverAnswer(file, overwrite_file, inp) == TRUE

\* whether save reaches self.data.to_csv(filename)
SaveWrites(file, overwrite_file, inp) ==
    ~(SavePrompts(file, overwrite_file) /\ Lower(inp) # "y")

\* Brownsville.save(overwrite_file=...) with the default file name
Save(overwrite_file, inp) ==
    /\ build.pc = "done"
    /\ output' = IF SaveWrites(output, overwrite_file, inp)
                 THEN ToCsv(build.data)
                 ELSE output
    /\ build' = [build EXCEPT !.saved =
                    [called |-> TRUE, overwrite_file |-> overwrite_file,
                     inp |-> inp,
                     prompted |-> SavePrompts(output, overwrite_file),
                     before |-> output]]
    /\ UNCHANGED <<now, version, clientVars, addresses, nruns, streak>>

SavedRows == {PlainRow(1), PlainRow(2)}

InitSave ==
    /\ \E data \in Tables(SavedRows) :
          build = [NoBuild EXCEPT !.pc = "done", !.data = CsvRows(data)]
    /\ output \in {NoFile} \cup {ToCsv(df) : df \in Tables(SavedRows)}
    /\ addresses = [exists |-> FALSE, keys |-> {}]
    /\ nruns = 0
    /\ streak = 0
    /\ now = 1
    /\ version = 0
    /\ session = NoSession
    /\ meta = NoMeta
    /\ pickle = [exists |-> FALSE, objs |-> NoMeta]
    /\ files = [f \in Filenames |-> NoFile]
    /\ ncalls = 0
    /\ last = NoLast
    /\ join = NoJoin

NextSave == \E overwrite_file \in BOOLEAN, inp \in Answers : Save(overwrite_file, inp)

SpecSave == InitSave /\ [][NextSave]_vars

\* C17: save writes the table to the output file exactly if the file did
\* not exist, or the overwrite flag is set, or the user answers y or Y to
\* the prompt; otherwise the file is as it was; with the flag set no
\* prompt is shown.
C17_SaveWritesIffAllowed ==
    build.saved.called =>
        /\ IF \/ ~build.saved.before.exists
              \/ build.saved.overwrite_file
              \/ build.saved.inp \in {"y", "Y"}
           THEN output = [exists |-> TRUE, ok |-> TRUE, rows |-> build.data]
           ELSE output = build.saved.before
        /\ build.saved.overwrite_file => ~build.saved.prompted

\* C17 happens: the file held another table, the flag was not set, the
\* prompt was shown and answered with something else than y, and the file
\* still holds the other table
C17_Witness ==
    /\ build.saved.called
    /\ build.saved.prompted
    /\ build.saved.inp = "yes"
    /\ output.exists
    /\ output.rows # build.data

(***************************************************************************)
(* Further claims about Client.__get_results.                              *)
(***************************************************************************)
\* C18: after every fetch_all call that returns (no cache, fresh cache,
\* stale cache or changed query) the cache file holds the rows of the
\* returned table in their order, the offset is the number of returned
\* rows, cache_date is the time of the call and last_query holds the
\* parameters the caller gave.
C18_SyncedAfterFetchAll ==
    (FetchedAll /\ last.outcome = "ok") =>
        /\ FileNow.exists
        /\ FileNow.ok
        /\ Len(FileNow.rows) = Len(last.df)
        /\ \A i \in 1..Len(last.df) :
              FileNow.rows[i] = [last.df[i] EXCEPT !.parsed = TRUE]
        /\ MetaNow.offset = Len(last.df)
        /\ MetaNow.cache_date = last.t
        /\ MetaNow.last_query = [isNone |-> FALSE, kw |-> last.kwargs]

\* C18 happens: a fetch_all call at a later time than the sync before has
\* returned a table of another length than the cached one
C18_Witness ==
    /\ FetchedAll
    /\ last.outcome = "ok"
    /\ last.prefile.exists
    /\ last.pre.cache_date # NeverSynced
    /\ last.pre.cache_date < last.t
    /\ last.pre.offset # Len(last.df)
    /\ last.df # << >>

\* the parameters of the last call plus the offset stored before it
OffsetParams ==
    [x \in DOMAIN last.kwargs \cup {"offset"} |->
        IF x = "offset" THEN last.pre.offset ELSE last.kwargs[x]]

\* C19: a fetch_all call that finds the cache file, an unchanged query and
\* a cache_date earlier than updated_on issues exactly one remote call,
\* a get_all with the parameters of the caller plus offset = the offset
\* stored before the call; it returns the cached rows followed by the rows
\* that call returned; and last_query stays the parameters of the caller,
\* without the offset.
C19_DeltaFromStoredOffset ==
    WarmStale =>
        /\ Len(last.calls) = 1
        /\ last.calls[1].fn = "get_all"
        /\ last.calls[1].endpoint = last.pre.endpoint
        /\ last.calls[1].params = OffsetParams
        /\ last.outcome = "ok" =>
              /\ last.df = last.prefile.rows
                             \o RemoteGetAll(last.pre.endpoint, OffsetParams,
                                             last.ver)
              /\ MetaNow.last_query = [isNone |-> FALSE, kw |-> last.kwargs]
              /\ "offset" \notin DOMAIN MetaNow.last_query.kw

\* C19 happens: a stale cache of a query with a where clause has got the
\* row the remote service had gained
C19_Witness ==
    /\ WarmStale
    /\ last.outcome = "ok"
    /\ "where" \in DOMAIN last.kwargs
    /\ last.pre.offset > 0
    /\ Len(last.df) > Len(last.prefile.rows)

\* C20 as stated: the cache_date of every metadata never decreases, and it
\* leaves the never-synced value only by a fetch_all call on that metadata
\* that returns, whatever calls, failures, closes and reopenings happen.
C20_CacheDateOnlyAdvances ==
    [][\A d \in Datasets :
          /\ meta'[d].cache_date >= meta[d].cache_date
          /\ (meta[d].cache_date = NeverSynced
                /\ meta'[d].cache_date # NeverSynced) =>
                /\ last'.op = "get_results"
                /\ last'.d = d
                /\ last'.fetch_all
                /\ last'.outcome = "ok"]_vars

\* what the code does: cache_date is assigned before the cache file is
\* written, so it also leaves the never-synced value by a fetch_all call
\* whose write of the cache file raises
C20_CacheDateAdvancesBeforeWrite ==
    [][\A d \in Datasets :
          /\ meta'[d].cache_date >= meta[d].cache_date
          /\ (meta[d].cache_date = NeverSynced
                /\ meta'[d].cache_date # NeverSynced) =>
                /\ last'.op = "get_results"
                /\ last'.d = d
                /\ last'.fetch_all
                /\ last'.outcome \in {"ok", "write_error"}]_vars

\* the last operation was a __get_results call without fetch_all
Peeked == last.op = "get_results" /\ ~last.fetch_all

\* the limit of the parameters of the last call, 1000 when there is none
LimitAsked ==
    IF "limit" \in DOMAIN last.kwargs THEN last.kwargs.limit ELSE 1000

\* C21: a call without fetch_all returns, when load_local is true and the
\* cache file exists, the first min(limit, number of cached rows) rows of
\* the cache file and issues no remote call; otherwise it issues exactly
\* one remote get with the parameters of the caller and returns what that
\* answers.
C21_PeekReadsHeadOrGets ==
    Peeked =>
        IF last.load_local /\ last.prefile.exists
        THEN /\ last.calls = << >>
             /\ last.outcome = "ok"
             /\ Len(last.df) = IF LimitAsked < Len(last.prefile.rows)
                               THEN LimitAsked ELSE Len(last.prefile.rows)
             /\ \A i \in 1..Len(last.df) : last.df[i] = last.prefile.rows[i]
        ELSE /\ last.calls = <<RemoteCall("get", last.pre.endpoint, last.kwargs)>>
             /\ last.outcome = "ok" =>
                   last.df = RemoteGet(last.pre.endpoint, last.kwargs, last.ver)

\* C21 happens: a bounded read has returned fewer rows than the cache file
\* holds
C21_Witness ==
    /\ Peeked
    /\ last.load_local
    /\ last.prefile.exists
    /\ last.df # << >>
    /\ Len(last.df) < Len(last.prefile.rows)

(***************************************************************************)
(* Further claims about the session.                                       *)
(***************************************************************************)
\* C22: a Client constructed on a data directory in which a session was
\* closed starts, for each of the six datasets, with the offset, the
\* cache_date, the last_query, the updated_on, the endpoint and the file
\* name the closed session left (in memory and in the snapshot), issues no
\* remote metadata call, and has loaded false for every dataset.
C22_ReopenRestoresMetadata ==
    [][(~session.open /\ session'.open /\ pickle.exists) =>
          /\ \A d \in Datasets :
                /\ meta'[d].offset = pickle.objs[d].offset
                /\ meta'[d].cache_date = pickle.objs[d].cache_date
                /\ meta'[d].last_query = pickle.objs[d].last_query
                /\ meta'[d].updated_on = pickle.objs[d].updated_on
                /\ meta'[d].endpoint = pickle.objs[d].endpoint
                /\ meta'[d].filename = pickle.objs[d].filename
                /\ meta'[d] = [meta[d] EXCEPT !.loaded = FALSE]
                /\ ~meta'[d].loaded
          /\ last'.op = "init"
          /\ last'.calls = << >>]_vars

\* C22 happens: a session has been opened from the snapshot of a session
\* that had synced a dataset
C22_Witness ==
    /\ session.open
    /\ last.op = "init"
    /\ last.calls = << >>
    /\ pickle.exists
    /\ \E d \in Datasets :
          /\ meta[d].cache_date # NeverSynced
          /\ meta[d].offset > 0
          /\ ~meta[d].last_query.isNone
          /\ ~meta[d].loaded

(***************************************************************************)
(* The specification of the order of the steps: load_brownsville and       *)
(* __load_pluto statement by statement.  join.outcome is the position in   *)
(* load_brownsville ("slice": the housing-maintenance query has returned,  *)
(* "problems": the complaint-problems query has returned), build.pc the    *)
(* position in __load_pluto ("fetched": load_pluto has returned).          *)
(***************************************************************************)
\* a statement of the program is running between two of its steps
Running == join.outcome \in {"slice", "problems"} \/ build.pc = "fetched"

\* load_brownsville up to the return of load_housing_maintenance
StepSlice(fetch_all, fault) ==
    /\ session.open
    /\ ~Running
    /\ ncalls < MaxCalls
    /\ LET fn == meta["housing_maintenance"].filename
           r1 == GetResults(meta["housing_maintenance"], files[fn], fetch_all,
                            TRUE, [where |-> WhereBoard16], now, fault, version)
       IN  /\ meta' = [meta EXCEPT !["housing_maintenance"] = r1.meta]
           /\ files' = [files EXCEPT ![fn] = r1.file]
           /\ last' = CallRecord("housing_maintenance", fetch_all, TRUE,
                                 [where |-> WhereBoard16], meta, files, r1,
                                 now, fault, version)
           /\ join' = [NoJoin EXCEPT
                         !.outcome = IF r1.outcome = "ok" THEN "slice"
                                     ELSE r1.outcome,
                         !.hm = r1.df, !.calls = r1.calls]
           /\ LeaveOnError(r1.outcome # "ok",
                           [meta EXCEPT !["housing_maintenance"] = r1.meta])
    /\ ncalls' = ncalls + 1
    /\ UNCHANGED <<now, version, buildVars, streak>>

\* a faulty variant of StepProblems: the complaint problems are fetched
\* ahead, without bounds, while the slice has not been asked for
StepProblemsAhead(fault) ==
    /\ session.open
    /\ ~Running
    /\ join.outcome # "ok"
    /\ LET fn == meta["complaint_problems"].filename
           r2 == GetResults(meta["complaint_problems"], files[fn], TRUE, TRUE,
                            EmptyKw, now, fault, version)
       IN  /\ meta' = [meta EXCEPT !["complaint_problems"] = r2.meta]
           /\ files' = [files EXCEPT ![fn] = r2.file]
           /\ last' = CallRecord("complaint_problems", TRUE, TRUE, EmptyKw,
                                 meta, files, r2, now, fault, version)
           /\ join' = [join EXCEPT !.cp = r2.df,
                                   !.calls = join.calls \o r2.calls]
           /\ LeaveOnError(r2.outcome # "ok",
                           [meta EXCEPT !["complaint_problems"] = r2.meta])
    /\ UNCHANGED <<now, version, ncalls, buildVars, streak>>

\* load_brownsville from min and max of the slice up to the return of
\* load_complaint_problems
StepProblems(fault) ==
    /\ join.outcome = "slice"
    /\ IF join.hm = << >> \/ ~Comparable(join.hm)
       THEN /\ join' = [join EXCEPT !.outcome = IF join.hm = << >>
                                                THEN "empty_slice"
                                                ELSE "type_error"]
            /\ LeaveOnError(TRUE, meta)
            /\ UNCHANGED <<meta, files, last>>
       ELSE LET fn == meta["complaint_problems"].filename
                kw2 == ProblemsQuery(join.hm)
                r2 == GetResults(meta["complaint_problems"], files[fn],
                                 last.fetch_all, TRUE, kw2, now, fault, version)
            IN  /\ meta' = [meta EXCEPT !["complaint_problems"] = r2.meta]
                /\ files' = [files EXCEPT ![fn] = r2.file]
                /\ last' = CallRecord("complaint_problems", last.fetch_all,
                                      TRUE, kw2, meta, files, r2, now, fault,
                                      version)
                /\ join' = [join EXCEPT
                              !.outcome = IF r2.outcome # "ok" THEN r2.outcome
                                          ELSE IF r2.df = << >> THEN "key_error"
                                          ELSE "problems",
                              !.cp = r2.df, !.calls = join.calls \o r2.calls]
                /\ LeaveOnError(r2.outcome # "ok" \/ r2.df = << >>,
                                [meta EXCEPT !["complaint_problems"] = r2.meta])
    /\ UNCHANGED <<now, version, ncalls, buildVars, streak>>

\* load_brownsville from the type conversion on: the merge and the write
\* of the unified table
StepJoin ==
    /\ join.outcome = "problems"
    /\ join' = [join EXCEPT !.outcome = "ok",
                            !.joined = JoinBrownsville(join.hm, join.cp)]
    /\ files' = [files EXCEPT ![meta["brownsville"].filename] =
                    ToCsv(JoinBrownsville(join.hm, join.cp))]
    /\ UNCHANGED <<now, version, session, meta, pickle, ncalls, last,
                   buildVars, streak>>

\* __load_pluto up to the return of load_pluto
StepPluto(fault) ==
    /\ build.pc = "enriched"
    /\ pickle.exists
    /\ LET M == LoadMetadata(pickle, NoMeta)
           fn == M["pluto"].filename
           kwargs == PlutoQuery(build.fetch_remote)
           res == GetResults(M["pluto"], files[fn], TRUE, TRUE, kwargs, now,
                             fault, version)
       IN  /\ meta' = [M EXCEPT !["pluto"] = res.meta]
           /\ files' = [files EXCEPT ![fn] = res.file]
           /\ last' = CallRecord("pluto", TRUE, TRUE, kwargs, M, files, res,
                                 now, fault, version)
           /\ IF res.outcome = "ok" /\ res.df # << >>
              THEN /\ build' = [build EXCEPT !.pc = "fetched",
                                             !.calls = build.calls \o res.calls]
                   /\ UNCHANGED <<pickle, session>>
              ELSE /\ build' = BuildFailed
                   /\ pickle' = ClientClose([M EXCEPT !["pluto"] = res.meta])
                   /\ session' = SessionLeft(TRUE)
    /\ UNCHANGED <<now, version, ncalls, join, addresses, output, nruns, streak>>

\* __load_pluto from the type conversion on: the merge, and the end of the
\* with block
StepParcelJoin ==
    /\ build.pc = "fetched"
    /\ build' = [build EXCEPT !.pc = "merged",
                              !.data = MergePluto(build.data, last.df)]
    /\ pickle' = ClientClose(meta)
    /\ session' = SessionLeft(FALSE)
    /\ UNCHANGED <<now, version, meta, files, ncalls, last, join, addresses,
                   output, nruns, streak>>

\* what a load_brownsville(fetch_all=True) at time 1 leaves in an empty
\* data directory
Prepared ==
    BrownsvilleResult(
        LoadMetadata([exists |-> FALSE, objs |-> NoMeta], FetchMetadata({})),
        [f \in Filenames |-> NoFile], TRUE, "none", "none", 1, 0)

\* the program starts in an empty data directory, or in a prepared one
\* with a construction that has got through __get_BBL
InitSteps ==
    /\ now = 1
    /\ version = 0
    /\ ncalls = 0
    /\ nruns = 0
    /\ streak = 0
    /\ output = NoFile
    /\ join = NoJoin
    /\ last = NoLast
    /\ \/ /\ build = NoBuild
          /\ addresses = [exists |-> FALSE, keys |-> {}]
          /\ session = NoSession
          /\ meta = NoMeta
          /\ pickle = [exists |-> FALSE, objs |-> NoMeta]
          /\ files = [f \in Filenames |-> NoFile]
       \/ /\ build = [Loaded(CsvRows(Prepared.joined), FALSE, << >>,
                              Prepared.files)
                         EXCEPT !.pc = "enriched",
                                !.data = GetBBL(Broadcast(SetAddresses(@)))]
          /\ addresses =
                [exists |-> TRUE,
                 keys |-> {AddressKey(SetAddresses(Prepared.joined)[i]) :
                             i \in 1..Len(Prepared.joined)}]
          /\ session = SessionLeft(FALSE)
          /\ meta = Prepared.meta
          /\ pickle = SaveMetadata(Prepared.meta)
          /\ files = Prepared.files

NextSteps ==
    \/ Tick
    \/ RemoteGrows
    \/ \E skew \in SkewChoices, fault \in RemoteFaults :
          ~Running /\ OpenSession(skew, fault)
    \/ ~Running /\ CloseSession
    \/ \E fetch_all \in BOOLEAN, fault \in RemoteFaults :
          StepSlice(fetch_all, fault)
    \/ \E fault \in RemoteFaults : StepProblems(fault)
    \/ StepJoin
    \/ \E fault \in RemoteFaults : StepPluto(fault)
    \/ StepParcelJoin
    \/ \E translations_ok \in BOOLEAN : BuildFinish(translations_ok)

SpecSteps == InitSteps /\ [][NextSteps]_vars

\* the cache file and the metadata of dataset d hold the table df as a
\* fetch_all call leaves them
Reconciled(d, df) ==
    /\ files[meta[d].filename].exists
    /\ Len(files[meta[d].filename].rows) = Len(df)
    /\ \A i \in 1..Len(df) :
          files[meta[d].filename].rows[i] = [df[i] EXCEPT !.parsed = TRUE]
    /\ meta[d].offset = Len(df)
    /\ meta[d].cache_date # NeverSynced

\* the last call was a call on dataset d that has returned the table df
\* and, with fetch_all, has left its cache file and metadata updated
Completed(d, df) ==
    /\ last.op = "get_results"
    /\ last.d = d
    /\ last.outcome = "ok"
    /\ last.df = df
    /\ last.fetch_all => Reconciled(d, df) /\ meta[d].cache_date = last.t

\* the datasets whose cache file or whose sync state a step changes
Touched ==
    {d \in Datasets :
        \/ files'[meta[d].filename] # files[meta[d].filename]
        \/ meta'[d].offset # meta[d].offset
        \/ meta'[d].cache_date # meta[d].cache_date
        \/ meta'[d].last_query # meta[d].last_query}

\* C23: in every run of load_brownsville the housing-maintenance call has
\* returned, with its cache file and metadata updated, before the call
\* for the complaint problems is made; the complaint-problems call
\* has returned likewise before the tables are joined; the PLUTO call has
\* returned likewise before the parcel join; and no step works on two
\* datasets at once.
C23_ReconciledBeforeUsed ==
    [][/\ (/\ last' # last
           /\ last'.op = "get_results"
           /\ last'.d = "complaint_problems") =>
             /\ join.outcome = "slice"
             /\ Completed("housing_maintenance", join.hm)
             /\ \A j \in 1..Len(join.calls) :
                   join.calls[j].endpoint = EndpointOf("housing_maintenance")
       /\ ((join'.outcome = "ok" /\ join.outcome # "ok")
             \/ files'[FilenameOf(NameOf("brownsville"))]
                  # files[FilenameOf(NameOf("brownsville"))]) =>
             /\ Completed("complaint_problems", join.cp)
             /\ last.fetch_all =>
                   Reconciled("housing_maintenance", join.hm)
             /\ join'.joined = JoinBrownsville(join.hm, join.cp)
       /\ (build'.pc = "merged" /\ build.pc # "merged") =>
             /\ Completed("pluto", last.df)
             /\ build'.data = MergePluto(build.data, last.df)
       /\ Cardinality(Touched) <= 1]_vars

\* C23 happens: a load_brownsville that fetched both tables from the
\* remote service has joined them
C23_Witness ==
    /\ join.outcome = "ok"
    /\ Len(join.calls) = 2
    /\ join.joined # << >>
    /\ build.pc = "idle"

(***************************************************************************)
(* The specification of the spatial enrichment as a function of the table  *)
(* and of the address table found on disk: tables over three addresses,    *)
(* and an address table that is absent or holds some of the addresses.     *)
(***************************************************************************)
SpatialRows == {[HMRow(101, 2, bid, 16, 7, 42) EXCEPT !.parsed = TRUE] : bid \in {5, 6, 7}}

InitSpatial ==
    /\ \E data \in Tables(SpatialRows) :
          build = Loaded(data, FALSE, << >>, [f \in Filenames |-> NoFile])
    /\ addresses \in
          {[exists |-> FALSE, keys |-> {}]} \cup
          {[exists |-> TRUE, keys |-> K] :
              K \in SUBSET {AddressKey(r) :
                              r \in {SetAddresses(<<x>>)[1] : x \in SpatialRows}}}
    /\ output = NoFile
    /\ nruns = 1
    /\ streak = 0
    /\ now = 1
    /\ version = 0
    /\ session = SessionLeft(FALSE)
    /\ meta = NoMeta
    /\ pickle = SaveMetadata(NoMeta)
    /\ files = [f \in Filenames |-> NoFile]
    /\ ncalls = 0
    /\ last = NoLast
    /\ join = NoJoin

NextSpatial == \E down \in DownChoices : BuildEnrich(down)

SpecSpatial == InitSpatial /\ [][NextSpatial]_vars

\* the addresses of the table a step of the enrichment works on
TableAddresses ==
    {AddressKey(SetAddresses(build.data)[i]) : i \in 1..Len(build.data)}

\* the addresses the address table on disk holds
OnDisk(table) == IF table.exists THEN table.keys ELSE {}

\* C24 as stated: in an enrichment in which no lookup fails, get_lat_lng
\* is called, once, for exactly the addresses of the table that the
\* address table on disk does not hold, and afterwards the address table
\* on disk holds its old addresses and those of the table.
C24_LookupIffNotOnDisk ==
    [][(build.pc = "loaded" /\ build'.pc # "loaded" /\ build'.down = {}) =>
          /\ \A address \in TableAddresses :
                Cardinality({j \in 1..Len(build'.lookups) :
                               build'.lookups[j] = address})
                  = IF address \in OnDisk(addresses) THEN 0 ELSE 1
          /\ addresses'.exists
          /\ addresses'.keys = OnDisk(addresses) \cup TableAddresses]_vars

\* what the code does: when the address table exists nothing is looked up
\* and nothing is written, and an address it lacks ends the construction
C24_NoLookupWhenTableExists ==
    [][(build.pc = "loaded" /\ build'.pc # "loaded" /\ addresses.exists) =>
          /\ build'.lookups = << >>
          /\ addresses' = addresses
          /\ build'.pc = IF TableAddresses \subseteq addresses.keys
                         THEN "enriched" ELSE "failed"]_vars

\* C25 as stated: the enrichment completes, when it has built the address
\* table as when it has read it, and every row then has the latitude and
\* the longitude that belong to its address.
C25_RowsGetCoordinates ==
    (Enriched /\ build.down = {}
       /\ \A i \in 1..Len(build.data) :
             AddressKey(build.data[i]) \in OnDisk(addresses)) =>
        /\ build.pc = "enriched"
        /\ \A i \in 1..Len(build.data) :
              /\ build.data[i].latitude = 40 + build.data[i].housenumber
              /\ build.data[i].longitude = 0 - 73 - build.data[i].housenumber

\* what the code does: only an enrichment that has read the address table
\* completes with rows, and every row then has the pair of its address
C25_RowsGetCoordinatesWhenRead ==
    build.pc = "enriched" =>
        /\ build.lookups = << >>
        /\ \A i \in 1..Len(build.data) :
              /\ build.data[i].latitude = 40 + build.data[i].housenumber
              /\ build.data[i].longitude = 0 - 73 - build.data[i].housenumber

(***************************************************************************)
(* The specification of the finished table: __filter_descriptions and      *)
(* get_record_by_building_id on tables, sorted by building id as           *)
(* __load_dataset leaves them, over two buildings and three status texts.  *)
(***************************************************************************)
\* the missing value pandas puts into a column of texts
NaN == "NaN"

\* the dictionary of __filter_descriptions (three of its 23 entries)
Descriptions ==
    [s \in {"The Department of Housing Preservation and Development inspected the following conditions. No violations were issued. The complaint has been closed.",
            "The following complaint conditions are still open. HPD may attempt to contact you to verify the correction of the condition or may conduct an inspection.",
            "UNKNOWN STATUS"} |->
        CASE s = "The Department of Housing Preservation and Development inspected the following conditions. No violations were issued. The complaint has been closed."
               -> "Inspected; no violations issued"
          [] s = "The following complaint conditions are still open. HPD may attempt to contact you to verify the correction of the condition or may conduct an inspection."
               -> "Complaint remains open"
          [] OTHER -> "UNKNOWN STATUS"]

\* self.data["statusdescription"].map(descriptions): Series.map with a
\* dictionary gives the missing value for a text that is not a key
FilterDescriptions(data) ==
    [i \in 1..Len(data) |->
        data[i] @@
        [statusdescriptionshort |->
            IF data[i].statusdescription \in DOMAIN Descriptions
            THEN Descriptions[data[i].statusdescription]
            ELSE NaN]]

\* self.data["buildingid"].values.searchsorted(building_id): the number
\* of rows before the first row whose building id is not smaller
RECURSIVE SearchSorted(_, _)
SearchSorted(data, building_id) ==
    IF data = << >> \/ Head(data).buildingid >= building_id THEN 0
    ELSE 1 + SearchSorted(Tail(data), building_id)

\* the rows of the tables: buildings 5 and 7, a status text of the
\* dictionary, the default of __fill_na and a text the dictionary lacks
TableRows ==
    {[buildingid |-> bid, statusdescription |-> text, parsed |-> TRUE] :
        bid \in {5, 7},
        text \in {"The following complaint conditions are still open. HPD may attempt to contact you to verify the correction of the condition or may conduct an inspection.",
                  "UNKNOWN STATUS",
                  "The complaint was referred to another agency."}}

InitTable ==
    /\ \E data \in Tables(TableRows) :
          build = [NoBuild EXCEPT !.pc = "filtered", !.data = SortByBuilding(data)]
    /\ addresses = [exists |-> TRUE, keys |-> {}]
    /\ output = NoFile
    /\ nruns = 1
    /\ streak = 0
    /\ now = 1
    /\ version = 0
    /\ session = SessionLeft(FALSE)
    /\ meta = NoMeta
    /\ pickle = SaveMetadata(NoMeta)
    /\ files = [f \in Filenames |-> NoFile]
    /\ ncalls = 0
    /\ last = NoLast
    /\ join = NoJoin

\* __filter_descriptions, the last change __init__ makes to the table
DoFilterDescriptions ==
    /\ build.pc = "filtered"
    /\ build' = [build EXCEPT !.pc = "done",
                              !.data = FilterDescriptions(build.data)]
    /\ UNCHANGED <<now, version, clientVars, addresses, output, nruns, streak>>

\* get_record_by_building_id(building_id): iloc of an index past the end
\* raises IndexError
GetRecordByBuildingId(building_id) ==
    /\ build.pc = "done"
    /\ last' = [NoLast EXCEPT
                  !.op = "get_record_by_building_id",
                  !.kwargs = [building_id |-> building_id],
                  !.outcome = IF building_id = 0
                                 \/ SearchSorted(build.data, building_id)
                                      >= Len(build.data)
                              THEN "index_error" ELSE "ok",
                  !.df = IF building_id = 0
                            \/ SearchSorted(build.data, building_id)
                                 >= Len(build.data)
                         THEN << >>
                         ELSE << build.data[SearchSorted(build.data,
                                                         building_id) + 1] >>]
    /\ UNCHANGED <<now, version, session, meta, pickle, files, ncalls, join,
                   buildVars, streak>>

NextTable ==
    \/ DoFilterDescriptions
    \/ \E building_id \in 0..8 : GetRecordByBuildingId(building_id)

SpecTable == InitTable /\ [][NextTable]_vars

\* C26 as stated: the short status description of a row is the phrase of
\* the dictionary when the status description is one of its keys, and
\* otherwise the status text as it was, not another value and not null.
C26_UnmappedTextKept ==
    build.pc = "done" =>
        \A i \in 1..Len(build.data) :
            build.data[i].statusdescriptionshort =
                IF build.data[i].statusdescription \in DOMAIN Descriptions
                THEN Descriptions[build.data[i].statusdescription]
                ELSE build.data[i].statusdescription

\* what the code does: the short description of a text the dictionary
\* lacks is the missing value
C26_UnmappedTextMissing ==
    build.pc = "done" =>
        \A i \in 1..Len(build.data) :
            build.data[i].statusdescriptionshort =
                IF build.data[i].statusdescription \in DOMAIN Descriptions
                THEN Descriptions[build.data[i].statusdescription]
                ELSE NaN

\* the rows of the table with the building id asked for
RowsOfBuilding ==
    SelectSeq(build.data, LAMBDA r : r.buildingid = last.kwargs.building_id)

\* C27 as stated: get_record_by_building_id returns the first row of the
\* building when the id occurs in the table, and an empty result, not the
\* row of another building and not an out-of-range error, when it does
\* not.
C27_AbsentIdGivesEmpty ==
    last.op = "get_record_by_building_id" =>
        /\ last.outcome = "ok"
        /\ last.df = IF RowsOfBuilding = << >> THEN << >>
                     ELSE << Head(RowsOfBuilding) >>

\* what the code does: for an id that does not occur it returns the first
\* row of the next building, or raises IndexError when there is none
C27_AbsentIdGivesNextOrRaises ==
    last.op = "get_record_by_building_id" =>
        IF RowsOfBuilding # << >>
        THEN last.outcome = "ok" /\ last.df = << Head(RowsOfBuilding) >>
        ELSE \/ last.outcome = "index_error"
             \/ /\ last.outcome = "ok"
                /\ last.df[1].buildingid > last.kwargs.building_id

\* C28: when the remote call of a get_results call fails, in the whole
\* fetch, the delta fetch or the bounded read, the offset, the cache_date
\* and the last_query of the metadata and the cache file are as they were
\* before the call, and the same call tried again without the failure
\* issues the remote calls the failed call would have issued.
C28_FailedCallChangesNothing ==
    RemoteFailed =>
        /\ MetaNow.offset = last.pre.offset
        /\ MetaNow.cache_date = last.pre.cache_date
        /\ MetaNow.last_query = last.pre.last_query
        /\ FileNow = last.prefile
        /\ GetResults(MetaNow, FileNow, last.fetch_all, last.load_local,
                      last.kwargs, last.t, "none", last.ver).calls
             = GetResults(last.pre, last.prefile, last.fetch_all,
                          last.load_local, last.kwargs, last.t, "none",
                          last.ver).calls

\* C28 happens: the delta fetch of a cache with rows failed
C28_Witness ==
    /\ RemoteFailed
    /\ last.fetch_all
    /\ last.pre.offset > 0
    /\ last.calls[1].params # last.kwargs
    /\ PathExists(last.prefile)

\* C28 happens also where the whole fetch and the bounded read failed
C28_WitnessWhole ==
    /\ RemoteFailed
    /\ last.fetch_all
    /\ last.calls[1].params = last.kwargs
    /\ last.pre.offset > 0

C28_WitnessPeek ==
    /\ RemoteFailed
    /\ ~last.fetch_all
    /\ last.pre.offset > 0

(***************************************************************************)
(* The specification of the client on a disk that can fail, used also by   *)
(* callers that build a Client outside a with block and never close it.    *)
(***************************************************************************)
\* the process ends with the Client open: close is not called and
\* metadata.pickle is not written
EndWithoutClose ==
    /\ session.open
    /\ session' = [session EXCEPT !.open = FALSE]
    /\ UNCHANGED <<now, version, meta, pickle, files, ncalls, last, join,
                   buildVars, streak>>

NextUnclosed ==
    \/ NextFaults
    \/ EndWithoutClose

SpecUnclosed == Init /\ [][NextUnclosed]_vars

\* C29 as stated: in every state reached by get_results calls, closes and
\* reopenings from an empty data directory, calls that fail while fetching
\* or while writing the cache file included, whenever the cache file of a
\* dataset exists the offset of the metadata in force equals the number
\* of rows of the file.
C29_OffsetIsRowCount ==
    session.open =>
        \A d \in Datasets :
            PathExists(files[meta[d].filename]) =>
                /\ files[meta[d].filename].ok
                /\ meta[d].offset = Len(files[meta[d].filename].rows)

\* the dataset has been synced at a time not earlier than its updated_on
SyncedInTime(metadata) ==
    /\ metadata.cache_date # NeverSynced
    /\ metadata.cache_date >= metadata.updated_on

\* C30: updated_on of a metadata object changes only where a Client is
\* constructed without a snapshot, never in get_results, close or a
\* reopening from the snapshot; so a dataset synced at a time not earlier
\* than updated_on stays so, and no later fetch_all call with the query
\* it was synced with issues a delta fetch, in the same or a later
\* session, whatever has happened to the remote data.
C30_UpdatedOnNeverRefreshed ==
    [][\A d \in Datasets :
          /\ meta'[d].updated_on # meta[d].updated_on =>
                /\ ~pickle.exists
                /\ last'.op = "init"
          /\ SyncedInTime(meta[d]) => SyncedInTime(meta'[d])
          /\ (/\ last' # last
              /\ last'.op = "get_results"
              /\ last'.d = d
              /\ last'.fetch_all
              /\ SyncedInTime(meta[d])
              /\ ~meta[d].last_query.isNone
              /\ meta[d].last_query.kw = last'.kwargs) =>
                \A i \in 1..Len(last'.calls) :
                    "offset" \in DOMAIN last'.calls[i].params =>
                        "offset" \in DOMAIN last'.kwargs]_vars

\* C30 happens: a dataset synced in an earlier session is asked for again
\* with the same query after the remote data has grown, and is served
\* from the cache file without a remote call
C30_Witness ==
    /\ last.op = "get_results"
    /\ last.fetch_all
    /\ last.load_local
    /\ ~last.pre.loaded
    /\ SyncedInTime(last.pre)
    /\ ~last.pre.last_query.isNone
    /\ last.pre.last_query.kw = last.kwargs
    /\ PathExists(last.prefile)
    /\ last.ver = 1
    /\ Len(last.prefile.rows)
         < Len(RemoteGetAll(last.pre.endpoint, last.kwargs, last.ver))
    /\ last.calls = << >>
    /\ last.outcome = "ok"

====
